---- MODULE Spec2Model ----
(***************************************************************************)
(* State-machine model of the ZIP-based storage container of plaso         *)
(* (plaso/storage/zip_file.py): write buffers and flush policy, the        *)
(* serialized streams and their tables, the chronological merge reader,    *)
(* the event tag index and the task/session merge protocol.                *)
(*                                                                         *)
(* Conventions.  Python None is the integer None (-1) where the value is   *)
(* otherwise a natural number, and the empty sequence where it is an       *)
(* object.  A stream name "prefix.NNNNNN" is the pair of a stream kind     *)
(* and a stream number; a ZIP file is a function from stream kinds to      *)
(* functions from stream numbers to stream contents.  The heap of          *)
(* serialized events is kept as the sequence of its elements in pop        *)
(* order, the heap of the merge reader as the set of its tuples.           *)
(***************************************************************************)
EXTENDS Integers, Sequences, FiniteSets, Bags, TLC

VARIABLES
    storage_file,   \* the ZIPStorageFile object
    disk,           \* the file system: path -> ZIP file
    result,         \* outcome of the last call: operation, raised, value
    accepted,       \* per kind, the bag of records accepted since Open
    reader,         \* the GetEvents generator and what it has yielded
    writers         \* the ZIPStorageFileWriter objects, by name

vars == <<storage_file, disk, result, accepted, reader, writers>>

----------------------------------------------------------------------------
(* Bounds of the model. *)

MaxTimestamp == 3
MaxPayload == 1
MaxRecords == 3
MaximumBufferSize == 1
MaxTaskRecords == 2

(* Program constants. *)

DATA_ENTRY_SIZE == 4
MAXIMUM_DATA_SIZE == 41943040
TAG_TYPE_NUMERIC == 1
TAG_TYPE_UUID == 2
FORMAT_VERSION == 20160525
COMPATIBLE_FORMAT_VERSION == 20160501

None == 0 - 1

STORAGE_TYPE_SESSION == "session"
STORAGE_TYPE_TASK == "task"
STORAGE_TYPES == {STORAGE_TYPE_SESSION, STORAGE_TYPE_TASK}

Timestamps == 1..MaxTimestamp
Payloads == 1..MaxPayload

----------------------------------------------------------------------------
(* Generic helpers. *)

RECURSIVE LexLess(_, _)
LexLess(a, b) ==
    IF a = <<>> THEN b # <<>>
    ELSE IF b = <<>> THEN FALSE
    ELSE IF Head(a) # Head(b) THEN Head(a) < Head(b)
    ELSE LexLess(Tail(a), Tail(b))

RECURSIVE SeqToBag(_)
SeqToBag(s) ==
    IF s = <<>> THEN EmptyBag ELSE SetToBag({Head(s)}) (+) SeqToBag(Tail(s))

RECURSIVE SumLen(_)
SumLen(s) ==
    IF s = <<>> THEN 0 ELSE Head(s) + SumLen(Tail(s))

IsSortedSeq(s) == \A i \in 1..(Len(s) - 1) : s[i] <= s[i + 1]

----------------------------------------------------------------------------
(* The serializer (plaso.serializer.json_serializer).  An attribute        *)
(* container carries a payload standing for its attribute values; its      *)
(* serialization is payload bytes long, and a payload of 0 bytes is a      *)
(* container that cannot be serialized.  The fields an event gets from     *)
(* the storage on reading (store_number, store_index, tag) are not part    *)
(* of the serialized form.                                                 *)

WriteSerialized(container) ==
    CASE container.type = "event" ->
           [type |-> "event", timestamp |-> container.timestamp,
            payload |-> container.payload, uuid |-> container.uuid]
      [] container.type = "event_tag" ->
           [type |-> "event_tag", payload |-> container.payload,
            store_number |-> container.store_number,
            store_index |-> container.store_index,
            event_uuid |-> container.event_uuid]
      [] OTHER ->
           [type |-> container.type, payload |-> container.payload]

ReadSerialized(data) ==
    CASE data.type = "event" ->
           [type |-> "event", timestamp |-> data.timestamp,
            payload |-> data.payload, uuid |-> data.uuid,
            store_number |-> None, store_index |-> None, tag |-> <<>>]
      [] data.type = "event_tag" ->
           [type |-> "event_tag", payload |-> data.payload,
            store_number |-> data.store_number,
            store_index |-> data.store_index,
            event_uuid |-> data.event_uuid]
      [] OTHER ->
           [type |-> data.type, payload |-> data.payload]

\* len(serialized_data)
DataLen(data) == data.payload

\* The byte order of two serializations, as Python compares byte strings.
DataKey(data) ==
    CASE data.type = "event" -> <<data.payload, data.timestamp, data.uuid>>
      [] data.type = "event_tag" ->
           <<data.payload, data.store_number, data.store_index,
             data.event_uuid>>
      [] OTHER -> <<data.payload>>

----------------------------------------------------------------------------
(* _AttributeContainersList *)

AttributeContainersList_init == [list |-> <<>>, data_size |-> 0]

\* PushAttributeContainer that puts the data in front of the list.
PushAttributeContainer_Front(l, serialized_data) ==
    [list |-> <<serialized_data>> \o l.list,
     data_size |-> l.data_size + DataLen(serialized_data)]

PushAttributeContainer(l, serialized_data) ==
    [list |-> Append(l.list, serialized_data),
     data_size |-> l.data_size + DataLen(serialized_data)]

\* Returns the list after the pop and the popped serialized data.
PopAttributeContainer(l) ==
    [l |-> [list |-> Tail(l.list),
            data_size |-> l.data_size - DataLen(Head(l.list))],
     serialized_data |-> Head(l.list)]

----------------------------------------------------------------------------
(* _SerializedEventsHeap: heap of (timestamp, event_data) tuples. *)

SerializedEventsHeap_init == [heap |-> <<>>, data_size |-> 0]

SerializedEventKey(v) == <<v[1]>> \o DataKey(v[2])

HeapInsert(heap, v, key(_)) ==
    LET n == Cardinality({i \in 1..Len(heap) : ~ LexLess(key(v), key(heap[i]))})
    IN  SubSeq(heap, 1, n) \o <<v>> \o SubSeq(heap, n + 1, Len(heap))

SerializedEventsHeap_PushEvent_NoHeap(h, timestamp, event_data) ==
    [heap |-> Append(h.heap, <<timestamp, event_data>>),
     data_size |-> h.data_size + DataLen(event_data)]

SerializedEventsHeap_PushEvent(h, timestamp, event_data) ==
    [heap |-> HeapInsert(h.heap, <<timestamp, event_data>>, SerializedEventKey),
     data_size |-> h.data_size + DataLen(event_data)]

\* Returns the heap after the pop and the popped (timestamp, event_data).
SerializedEventsHeap_PopEvent(h) ==
    [h |-> [heap |-> Tail(h.heap),
            data_size |-> h.data_size - DataLen(Head(h.heap)[2])],
     timestamp |-> Head(h.heap)[1], event_data |-> Head(h.heap)[2]]

----------------------------------------------------------------------------
(* _SerializedDataStream: a sequence of (size:u32, payload) entries. *)

EntrySize(data) == DATA_ENTRY_SIZE + DataLen(data)

RECURSIVE StreamSize(_)
StreamSize(entries) ==
    IF entries = <<>> THEN 0
    ELSE EntrySize(Head(entries)) + StreamSize(Tail(entries))

\* Offset of the entry with (zero-based) index i, as WriteEntry returns it.
EntryOffset(entries, i) == StreamSize(SubSeq(entries, 1, i))

\* Offsets taken after each write instead of before it.
EntryOffsets_AfterWrite(entries) ==
    [i \in 1..Len(entries) |-> EntryOffset(entries, i)]

\* The offsets WriteInitialize and WriteEntry return while entries are written.
EntryOffsets(entries) == [i \in 1..Len(entries) |-> EntryOffset(entries, i - 1)]

----------------------------------------------------------------------------
(* The ZIP file and the file system. *)

StreamKinds ==
    {"metadata", "event_data", "event_index", "event_timestamps",
     "event_source_data", "event_source_index", "event_tag_data",
     "event_tag_index", "error_data", "error_index", "analysis_report_data",
     "session_start", "session_completion", "task_start", "task_completion",
     "plaso_proto", "plaso_tagging", "plaso_tag_index"}

\* zipfile.ZipFile(path, mode='a') on a path that does not exist.
EmptyZip == [k \in StreamKinds |-> <<>>]

HasStream(zip, kind, stream_number) == stream_number \in DOMAIN zip[kind]

\* ZipFile.write / ZipFile.writestr: the member becomes visible under its name.
ZipWrite(zip, kind, stream_number, content) ==
    [zip EXCEPT ![kind] = (stream_number :> content) @@ @]

GetSerializedDataStreamNumbers(zip, kind) == DOMAIN zip[kind]

GetLastStreamNumber(zip, kind) ==
    LET numbers == DOMAIN zip[kind]
        last == IF numbers = {} THEN 0
                ELSE CHOOSE n \in numbers : \A m \in numbers : m <= n
    IN  last + 1

\* All entries of the streams of one kind, by ascending stream number.
RECURSIVE ConcatStreams(_, _)
ConcatStreams(streams, numbers) ==
    IF numbers = {} THEN <<>>
    ELSE LET n == CHOOSE x \in numbers : \A y \in numbers : x <= y
         IN  streams[n] \o ConcatStreams(streams, numbers \ {n})

AllEntries(zip, kind) == ConcatStreams(zip[kind], DOMAIN zip[kind])

NoPath == <<>>

\* os.path.dirname and os.path.join
DirName(path) == SubSeq(path, 1, Len(path) - 1)
JoinPath(directory, name) == directory \o <<name>>

\* The path of a storage file opened for writing: the name of the file in
\* a directory tempfile.mkdtemp makes in the directory of the file.  The
\* fresh name of the directory is derived from the name of the file.
TempPath(path) ==
    JoinPath(JoinPath(DirName(path), "tmp." \o path[Len(path)]),
             path[Len(path)])

\* A file is a ZIP file or the temporary file of a serialized data stream,
\* which holds the entries written to it.
StreamFile(entries) == [entries |-> entries]
IsStorageFile(file) == "metadata" \in DOMAIN file
StorageFiles(d) == {p \in DOMAIN d : IsStorageFile(d[p])}

\* The name "prefix.NNNNNN" of a stream, as the name of a file.
StreamName(kind, stream_number) == kind \o "." \o ToString(stream_number)

\* The temporary file of _SerializedDataStream: the stream name in the
\* directory of the storage file.
StreamFilePath(storage_file_path, kind, stream_number) ==
    JoinPath(DirName(storage_file_path), StreamName(kind, stream_number))

FileExists(d, path) == path \in DOMAIN d
RemoveFile(d, path) == [p \in (DOMAIN d) \ {path} |-> d[p]]
RenameFile(d, from, to) == (to :> d[from]) @@ RemoveFile(d, from)

\* WriteFinalize: the ZIP file has the stream, and the temporary file,
\* which WriteInitialize created or truncated, is removed.
WriteFinalize(d, storage_file_path, zip, kind, stream_number) ==
    RemoveFile([d EXCEPT ![storage_file_path] = zip],
               StreamFilePath(storage_file_path, kind, stream_number))

----------------------------------------------------------------------------
(* ZIPStorageFile: the object and the outcome of a call on it. *)

ZIPStorageFile_init(maximum_buffer_size, storage_type) ==
    [error_stream_number |-> 1,
     errors_list |-> AttributeContainersList_init,
     event_stream_number |-> 1,
     event_streams |-> <<>>,
     event_source_stream_number |-> 1,
     event_sources_list |-> AttributeContainersList_init,
     event_tag_index |-> <<>>,
     event_tag_stream_number |-> 1,
     event_heap |-> <<>>,
     is_open |-> FALSE,
     last_session |-> 0,
     last_task |-> 0,
     maximum_buffer_size |-> maximum_buffer_size,
     read_only |-> TRUE,
     serialized_event_tags |-> <<>>,
     serialized_event_tags_size |-> 0,
     serialized_events_heap |-> SerializedEventsHeap_init,
     path |-> NoPath,
     zipfile |-> FALSE,
     zipfile_path |-> NoPath,
     format_version |-> FORMAT_VERSION,
     storage_type |-> storage_type]

\* A call returns normally or raises; both leave an object and a file system.
Ok(sf, d) == [sf |-> sf, disk |-> d, raised |-> FALSE]
Raise(sf, d) == [sf |-> sf, disk |-> d, raised |-> TRUE]

\* Statement sequencing: an exception of the first call skips the second.
Then(r, Op(_, _)) == IF r.raised THEN r ELSE Op(r.sf, r.disk)

Zip(sf, d) == d[sf.zipfile_path]

\* ZipFile.writestr and ZipFile.write need a ZIP file opened in mode 'a'.
ZipWritable(sf) == sf.zipfile /\ ~ sf.read_only

----------------------------------------------------------------------------
(* Flushing the write buffers. *)

RECURSIVE PopAllAttributeContainers(_)
PopAllAttributeContainers(l) ==
    IF l.list = <<>> THEN <<>>
    ELSE LET popped == PopAttributeContainer(l)
         IN  <<popped.serialized_data>> \o PopAllAttributeContainers(popped.l)

RECURSIVE PopAllSerializedEvents(_)
PopAllSerializedEvents(h) ==
    IF h.heap = <<>> THEN <<>>
    ELSE LET popped == SerializedEventsHeap_PopEvent(h)
         IN  <<<<popped.timestamp, popped.event_data>>>>
               \o PopAllSerializedEvents(popped.h)

\* _WriteAttributeContainersHeap, as the new ZIP file or the exception.
WriteAttributeContainersHeap(sf, d, list, prefix, stream_number) ==
    LET entries == PopAllAttributeContainers(list)
        zip1 == ZipWrite(Zip(sf, d), prefix \o "_index", stream_number,
                         EntryOffsets(entries))
        zip2 == ZipWrite(zip1, prefix \o "_data", stream_number, entries)
    IN  WriteFinalize(d, sf.zipfile_path, zip2, prefix \o "_data",
                      stream_number)

\* On a ZIP file opened for reading offset_table.Write() raises after the
\* loop, outside the try statement: the list has been emptied and the
\* temporary file of the data stream stays in the directory of the file.
WriteSerializedErrors(sf, d) ==
    IF sf.errors_list.data_size = 0 THEN Ok(sf, d)
    ELSE IF ~ sf.zipfile THEN Raise(sf, d)
    ELSE IF ~ ZipWritable(sf)
    THEN Raise([sf EXCEPT !.errors_list = AttributeContainersList_init],
               (StreamFilePath(sf.zipfile_path, "error_data",
                               sf.error_stream_number)
                  :> StreamFile(PopAllAttributeContainers(sf.errors_list)))
                 @@ d)
    ELSE Ok([sf EXCEPT !.error_stream_number = @ + 1,
                       !.errors_list = AttributeContainersList_init],
            WriteAttributeContainersHeap(
                sf, d, sf.errors_list, "error", sf.error_stream_number))

WriteSerializedEventSources(sf, d) ==
    IF sf.event_sources_list.data_size = 0 THEN Ok(sf, d)
    ELSE Ok([sf EXCEPT !.event_source_stream_number = @ + 1,
                       !.event_sources_list = AttributeContainersList_init],
            WriteAttributeContainersHeap(
                sf, d, sf.event_sources_list, "event_source",
                sf.event_source_stream_number))

WriteSerializedEvents(sf, d) ==
    IF sf.serialized_events_heap.data_size = 0 THEN Ok(sf, d)
    ELSE LET popped == PopAllSerializedEvents(sf.serialized_events_heap)
             n == sf.event_stream_number
             entries == [i \in 1..Len(popped) |-> popped[i][2]]
             timestamps == [i \in 1..Len(popped) |-> popped[i][1]]
             zip1 == ZipWrite(Zip(sf, d), "event_index", n,
                              EntryOffsets(entries))
             zip2 == ZipWrite(zip1, "event_data", n, entries)
             zip3 == ZipWrite(zip2, "event_timestamps", n, timestamps)
         IN  Ok([sf EXCEPT !.event_stream_number = n + 1,
                           !.serialized_events_heap = SerializedEventsHeap_init],
                WriteFinalize(d, sf.zipfile_path, zip3, "event_data", n))

----------------------------------------------------------------------------
(* The event tags: the heap of (store_number, store_index, event_uuid,     *)
(* event_tag_data) tuples and the event tag index table.                   *)

SerializedEventTagKey(v) == <<v[1], v[2], v[3]>> \o DataKey(v[4])

\* if event_uuid: tag_type = TAG_TYPE_UUID else TAG_TYPE_NUMERIC
TagTypeOf(event_uuid) ==
    IF event_uuid # None THEN TAG_TYPE_UUID ELSE TAG_TYPE_NUMERIC

\* _SerializedEventTagIndexTable.Write of one _EventTagIndexValue: the
\* _TAG_INDEX_STRUCT holds the store pair or the UUID, never both.
BuildTagIndexStruct(tag_type, offset, event_uuid, store_number, store_index) ==
    IF tag_type = TAG_TYPE_NUMERIC
    THEN [tag_type |-> tag_type, offset |-> offset,
          store_number |-> store_number, store_index |-> store_index]
    ELSE [tag_type |-> tag_type, offset |-> offset, event_uuid |-> event_uuid]

\* _SerializedEventTagIndexTable.Read of one entry of stream
\* event_tag_index.<stream_store_number>, as an _EventTagIndexValue.
ParseTagIndexStruct(entry, stream_store_number) ==
    IF entry.tag_type = TAG_TYPE_NUMERIC
    THEN [tag_type |-> entry.tag_type, offset |-> entry.offset,
          event_uuid |-> None, store_number |-> entry.store_number,
          store_index |-> entry.store_index]
    ELSE [tag_type |-> entry.tag_type, offset |-> entry.offset,
          event_uuid |-> entry.event_uuid,
          store_number |-> stream_store_number, store_index |-> None]

\* _EventTagIndexValue.identifier: "store_number:store_index" or the UUID.
TagIdentifier(value) ==
    IF value.tag_type = TAG_TYPE_NUMERIC
    THEN <<"numeric", value.store_number, value.store_index>>
    ELSE <<"uuid", value.event_uuid, 0>>

\* The names of the event and event tag streams of a format version.
EventDataPrefix(format_version) ==
    IF format_version <= 20160501 THEN "plaso_proto" ELSE "event_data"
EventTagDataPrefix(format_version) ==
    IF format_version <= 20160501 THEN "plaso_tagging" ELSE "event_tag_data"
EventTagIndexPrefix(format_version) ==
    IF format_version <= 20160501 THEN "plaso_tag_index" ELSE "event_tag_index"

WriteSerializedEventTags(sf, d) ==
    IF sf.serialized_event_tags_size = 0 THEN Ok(sf, d)
    ELSE LET heap == sf.serialized_event_tags
             n == sf.event_tag_stream_number
             entries == [i \in 1..Len(heap) |-> heap[i][4]]
             offsets == EntryOffsets(entries)
             table == [i \in 1..Len(heap) |->
                         BuildTagIndexStruct(
                             TagTypeOf(heap[i][3]), offsets[i], heap[i][3],
                             heap[i][1], heap[i][2])]
             zip1 == ZipWrite(Zip(sf, d),
                              EventTagIndexPrefix(sf.format_version), n, table)
             zip2 == ZipWrite(zip1, EventTagDataPrefix(sf.format_version), n,
                              entries)
         IN  Ok([sf EXCEPT !.event_tag_stream_number = n + 1,
                           !.serialized_event_tags_size = 0,
                           !.serialized_event_tags = <<>>],
                WriteFinalize(d, sf.zipfile_path, zip2,
                              EventTagDataPrefix(sf.format_version), n))

----------------------------------------------------------------------------
(* Adding attribute containers. *)

\* _WriteAttributeContainer raises IOError on an empty serialization.
Serializable(container) == DataLen(WriteSerialized(container)) > 0

AddError(sf, d, error) ==
    IF ~ Serializable(error) THEN Raise(sf, d)
    ELSE LET sf1 == [sf EXCEPT !.errors_list =
                        PushAttributeContainer(@, WriteSerialized(error))]
         IN  IF sf1.errors_list.data_size > sf1.maximum_buffer_size
             THEN WriteSerializedErrors(sf1, d)
             ELSE Ok(sf1, d)

\* AddEvent that pushes the serialized event before it looks at it.
AddEvent_PushFirst(sf, d, event) ==
    IF ~ sf.is_open THEN Raise(sf, d)
    ELSE IF sf.read_only THEN Raise(sf, d)
    ELSE LET sf1 == [sf EXCEPT !.serialized_events_heap =
                        SerializedEventsHeap_PushEvent(
                            @, event.timestamp, WriteSerialized(event))]
         IN  IF ~ Serializable(event) THEN Raise(sf1, d)
             ELSE IF sf1.serialized_events_heap.data_size
                       > sf1.maximum_buffer_size
             THEN WriteSerializedEvents(sf1, d)
             ELSE Ok(sf1, d)

AddEvent(sf, d, event) ==
    IF ~ sf.is_open THEN Raise(sf, d)
    ELSE IF sf.read_only THEN Raise(sf, d)
    ELSE IF ~ Serializable(event) THEN Raise(sf, d)
    ELSE LET sf1 == [sf EXCEPT !.serialized_events_heap =
                        SerializedEventsHeap_PushEvent(
                            @, event.timestamp, WriteSerialized(event))]
         IN  IF sf1.serialized_events_heap.data_size > sf1.maximum_buffer_size
             THEN WriteSerializedEvents(sf1, d)
             ELSE Ok(sf1, d)

AddEventSource_NoFlush(sf, d, event_source) ==
    IF ~ sf.is_open \/ sf.read_only THEN Raise(sf, d)
    ELSE Ok([sf EXCEPT !.event_sources_list =
                PushAttributeContainer(@, WriteSerialized(event_source))], d)

AddEventSource(sf, d, event_source) ==
    IF ~ sf.is_open THEN Raise(sf, d)
    ELSE IF sf.read_only THEN Raise(sf, d)
    ELSE IF ~ Serializable(event_source) THEN Raise(sf, d)
    ELSE LET sf1 == [sf EXCEPT !.event_sources_list =
                        PushAttributeContainer(@, WriteSerialized(event_source))]
         IN  IF sf1.event_sources_list.data_size > sf1.maximum_buffer_size
             THEN WriteSerializedEventSources(sf1, d)
             ELSE Ok(sf1, d)

AddEventTag(sf, d, event_tag) ==
    IF ~ sf.is_open THEN Raise(sf, d)
    ELSE IF sf.read_only THEN Raise(sf, d)
    ELSE IF ~ Serializable(event_tag) THEN Raise(sf, d)
    ELSE LET event_tag_data == WriteSerialized(event_tag)
             heap_values == <<event_tag.store_number, event_tag.store_index,
                              event_tag.event_uuid, event_tag_data>>
             sf1 == [sf EXCEPT
                        !.serialized_event_tags =
                            HeapInsert(@, heap_values, SerializedEventTagKey),
                        !.serialized_event_tags_size =
                            @ + DataLen(event_tag_data)]
         IN  IF sf1.serialized_event_tags_size > sf1.maximum_buffer_size
             THEN WriteSerializedEventSources(sf1, d)
             ELSE Ok(sf1, d)

AddAnalysisReport(sf, d, analysis_report) ==
    IF ~ sf.is_open THEN Raise(sf, d)
    ELSE IF sf.read_only THEN Raise(sf, d)
    ELSE LET report_number ==
                 GetLastStreamNumber(Zip(sf, d), "analysis_report_data")
             zip1 == ZipWrite(Zip(sf, d), "analysis_report_data",
                              report_number, <<WriteSerialized(analysis_report)>>)
         IN  Ok(sf, [d EXCEPT ![sf.zipfile_path] = zip1])

----------------------------------------------------------------------------
(* Flush and Close. *)

Flush_WithoutErrors(sf, d) ==
    IF ~ sf.is_open THEN Raise(sf, d)
    ELSE IF ~ sf.read_only
    THEN Then(Then(WriteSerializedEventSources(sf, d), WriteSerializedEvents),
              WriteSerializedEventTags)
    ELSE Ok(sf, d)

Flush(sf, d) ==
    IF ~ sf.is_open THEN Raise(sf, d)
    ELSE IF ~ sf.read_only
    THEN Then(Then(Then(WriteSerializedEventSources(sf, d),
                        WriteSerializedEvents),
                   WriteSerializedEventTags),
              WriteSerializedErrors)
    ELSE Ok(sf, d)

----------------------------------------------------------------------------
(* A flush during which WriteEntry raises IOError at the entry numbered    *)
(* failing (from 1) of the stream being written.  The process has a        *)
(* current working directory.                                              *)

\* WriteAbort: the file named after the stream in the current working
\* directory is removed if there is one.
WriteAbort(d, current_working_directory, kind, stream_number) ==
    LET path == JoinPath(current_working_directory,
                         StreamName(kind, stream_number))
    IN  IF FileExists(d, path) THEN RemoveFile(d, path) ELSE d

\* The file system after WriteInitialize, the entries written before the
\* failing one, and WriteAbort.
WriteAborted(sf, d, current_working_directory, kind, stream_number, entries, failing) ==
    WriteAbort((StreamFilePath(sf.zipfile_path, kind, stream_number)
                  :> StreamFile(SubSeq(entries, 1, failing - 1))) @@ d,
               current_working_directory, kind, stream_number)

\* The list after n pops.
RECURSIVE PopAttributeContainers(_, _)
PopAttributeContainers(l, n) ==
    IF n = 0 THEN l
    ELSE PopAttributeContainers(PopAttributeContainer(l).l, n - 1)

RECURSIVE PopSerializedEvents(_, _)
PopSerializedEvents(h, n) ==
    IF n = 0 THEN h
    ELSE PopSerializedEvents(SerializedEventsHeap_PopEvent(h).h, n - 1)

\* _WriteSerializedErrors and _WriteSerializedEventSources: the entries up
\* to the failing one have been popped, the stream number stays.
WriteSerializedErrorsAborted(sf, d, current_working_directory, failing) ==
    IF sf.errors_list.data_size = 0 THEN Ok(sf, d)
    ELSE
    Raise([sf EXCEPT !.errors_list = PopAttributeContainers(@, failing)],
          WriteAborted(sf, d, current_working_directory, "error_data",
                       sf.error_stream_number, sf.errors_list.list, failing))

WriteSerializedEventSourcesAborted(sf, d, current_working_directory, failing) ==
    IF sf.event_sources_list.data_size = 0 THEN Ok(sf, d)
    ELSE
    Raise([sf EXCEPT !.event_sources_list =
              PopAttributeContainers(@, failing)],
          WriteAborted(sf, d, current_working_directory, "event_source_data",
                       sf.event_source_stream_number,
                       sf.event_sources_list.list, failing))

WriteSerializedEventsAborted(sf, d, current_working_directory, failing) ==
    LET heap == sf.serialized_events_heap.heap
    IN  IF sf.serialized_events_heap.data_size = 0 THEN Ok(sf, d)
        ELSE
        Raise([sf EXCEPT !.serialized_events_heap =
                  PopSerializedEvents(@, failing)],
              WriteAborted(sf, d, current_working_directory, "event_data",
                           sf.event_stream_number,
                           [i \in 1..Len(heap) |-> heap[i][2]], failing))

\* _WriteSerializedEventTags: the tags are popped, their size is not reduced.
WriteSerializedEventTagsAborted(sf, d, current_working_directory, failing) ==
    LET heap == sf.serialized_event_tags
    IN  IF sf.serialized_event_tags_size = 0 THEN Ok(sf, d)
        ELSE
        Raise([sf EXCEPT !.serialized_event_tags =
                  SubSeq(heap, failing + 1, Len(heap))],
              WriteAborted(sf, d, current_working_directory,
                           EventTagDataPrefix(sf.format_version),
                           sf.event_tag_stream_number,
                           [i \in 1..Len(heap) |-> heap[i][4]], failing))

\* Flush in which the write of the stream of one kind fails.
FlushAborted(sf, d, current_working_directory, kind, failing) ==
    LET EventSources(s, e) ==
            IF kind = "event_source"
            THEN WriteSerializedEventSourcesAborted(
                     s, e, current_working_directory, failing)
            ELSE WriteSerializedEventSources(s, e)
        Events(s, e) ==
            IF kind = "event"
            THEN WriteSerializedEventsAborted(
                     s, e, current_working_directory, failing)
            ELSE WriteSerializedEvents(s, e)
        EventTags(s, e) ==
            IF kind = "event_tag"
            THEN WriteSerializedEventTagsAborted(
                     s, e, current_working_directory, failing)
            ELSE WriteSerializedEventTags(s, e)
        Errors(s, e) ==
            IF kind = "error"
            THEN WriteSerializedErrorsAborted(
                     s, e, current_working_directory, failing)
            ELSE WriteSerializedErrors(s, e)
    IN  IF ~ sf.is_open THEN Raise(sf, d)
        ELSE IF ~ sf.read_only
        THEN Then(Then(Then(EventSources(sf, d), Events), EventTags), Errors)
        ELSE Ok(sf, d)

\* Close after its flush: os.rmdir of the temporary directory raises
\* OSError when a file is left in it.
CloseAfterFlush(sf, flushed) ==
    LET sf1 == [flushed.sf EXCEPT !.event_streams = <<>>,
                                  !.zipfile = FALSE,
                                  !.is_open = FALSE]
        renamed == sf.path # sf.zipfile_path
                     /\ FileExists(flushed.disk, sf.zipfile_path)
        d1 == IF renamed
              THEN RenameFile(flushed.disk, sf.zipfile_path, sf.path)
              ELSE flushed.disk
        directory_name == DirName(sf.zipfile_path)
    IN  IF flushed.raised THEN flushed
        ELSE IF renamed /\ \E p \in DOMAIN d1 : DirName(p) = directory_name
        THEN Raise(sf1, d1)
        ELSE Ok([sf1 EXCEPT !.path = NoPath, !.zipfile_path = NoPath], d1)

Close(sf, d) ==
    IF ~ sf.is_open THEN Raise(sf, d)
    ELSE CloseAfterFlush(sf, IF ~ sf.read_only THEN Flush(sf, d)
                             ELSE Ok(sf, d))

\* Close in which the write of the stream of one kind fails.
CloseAborted(sf, d, current_working_directory, kind, failing) ==
    IF ~ sf.is_open THEN Raise(sf, d)
    ELSE CloseAfterFlush(
             sf, IF ~ sf.read_only
                 THEN FlushAborted(sf, d, current_working_directory, kind,
                                   failing)
                 ELSE Ok(sf, d))

----------------------------------------------------------------------------
(* Open. *)

SERIALIZER_FORMAT_JSON == "json"

\* _WriteStorageMetadata: metadata.txt is the stream ("metadata", 0).
StorageMetadata(sf) ==
    [format_version |-> FORMAT_VERSION,
     serialization_format |-> SERIALIZER_FORMAT_JSON,
     storage_type |-> sf.storage_type]

\* Mutant: the ZIP file is opened for write where it is, not in a temporary
\* directory.
OpenZIPFile_InPlace(sf, d, path, read_only) ==
    IF sf.zipfile THEN Raise(sf, d)
    ELSE IF read_only /\ ~ FileExists(d, path) THEN Raise(sf, d)
    ELSE Ok([sf EXCEPT !.zipfile = TRUE,
                       !.zipfile_path = path,
                       !.is_open = TRUE,
                       !.path = path,
                       !.read_only = read_only],
            IF FileExists(d, path) THEN d ELSE (path :> EmptyZip) @@ d)

\* _OpenZIPFile
OpenZIPFile(sf, d, path, read_only) ==
    IF sf.zipfile THEN Raise(sf, d)
    ELSE IF read_only /\ ~ FileExists(d, path) THEN Raise(sf, d)
    ELSE LET zipfile_path == IF read_only THEN path ELSE TempPath(path)
             d1 == IF read_only THEN d
                   ELSE IF FileExists(d, path)
                   THEN RenameFile(d, path, zipfile_path)
                   ELSE (zipfile_path :> EmptyZip) @@ d
         IN  Ok([sf EXCEPT !.zipfile = TRUE,
                           !.zipfile_path = zipfile_path,
                           !.is_open = TRUE,
                           !.path = path,
                           !.read_only = read_only],
                d1)

\* Mutant: the compatible format version itself is refused.
UnsupportedStorageMetadata_Exclusive(storage_metadata) ==
    \/ storage_metadata.format_version = None
    \/ storage_metadata.format_version = 0
    \/ storage_metadata.format_version <= COMPATIBLE_FORMAT_VERSION
    \/ storage_metadata.format_version > FORMAT_VERSION
    \/ storage_metadata.serialization_format # SERIALIZER_FORMAT_JSON
    \/ storage_metadata.storage_type \notin STORAGE_TYPES

\* _ReadStorageMetadata: whether it raises on the metadata read.  A format
\* version that is missing or not a number reads as None.
UnsupportedStorageMetadata(storage_metadata) ==
    \/ storage_metadata.format_version = None
    \/ storage_metadata.format_version = 0
    \/ storage_metadata.format_version < COMPATIBLE_FORMAT_VERSION
    \/ storage_metadata.format_version > FORMAT_VERSION
    \/ storage_metadata.serialization_format # SERIALIZER_FORMAT_JSON
    \/ storage_metadata.storage_type \notin STORAGE_TYPES

\* _ReadStorageMetadata followed by the rest of _OpenRead
OpenRead(sf, d) ==
    LET zip == Zip(sf, d)
        has_storage_metadata == HasStream(zip, "metadata", 0)
        storage_metadata == zip["metadata"][0]
        sf1 == IF has_storage_metadata
               THEN [sf EXCEPT
                       !.format_version = storage_metadata.format_version,
                       !.storage_type = storage_metadata.storage_type]
               ELSE sf
    IN  IF has_storage_metadata /\ UnsupportedStorageMetadata(storage_metadata)
        THEN Raise(sf, d)
        ELSE Ok([sf1 EXCEPT
                   !.error_stream_number = GetLastStreamNumber(zip, "error_data"),
                   !.event_stream_number =
                       GetLastStreamNumber(
                           zip, EventDataPrefix(sf1.format_version)),
                   !.event_source_stream_number =
                       GetLastStreamNumber(zip, "event_source_data"),
                   !.event_tag_stream_number =
                       GetLastStreamNumber(
                           zip, EventTagDataPrefix(sf1.format_version)),
                   !.last_session =
                       GetLastStreamNumber(zip, "session_completion"),
                   !.last_task = GetLastStreamNumber(zip, "task_completion")],
                d)

\* _OpenWrite and _WriteStorageMetadata, which keeps a metadata stream
\* that exists.
OpenWrite(sf, d) ==
    IF sf.event_stream_number = 1 /\ ~ HasStream(Zip(sf, d), "metadata", 0)
    THEN Ok(sf, [d EXCEPT ![sf.zipfile_path] =
                    ZipWrite(@, "metadata", 0, StorageMetadata(sf))])
    ELSE Ok(sf, d)

Open(sf, d, path, read_only) ==
    LET opened == Then(OpenZIPFile(sf, d, path, read_only), OpenRead)
    IN  IF read_only THEN opened ELSE Then(opened, OpenWrite)

----------------------------------------------------------------------------
(* Session and task markers. *)

WriteMarker(sf, d, kind, stream_number, container) ==
    Ok(sf, [d EXCEPT ![sf.zipfile_path] =
               ZipWrite(@, kind, stream_number, <<WriteSerialized(container)>>)])

\* _WriteSessionStart
PrivateWriteSessionStart(sf, d, session_start) ==
    IF sf.storage_type # STORAGE_TYPE_SESSION THEN Raise(sf, d)
    ELSE IF HasStream(Zip(sf, d), "session_start", sf.last_session)
    THEN Raise(sf, d)
    ELSE WriteMarker(sf, d, "session_start", sf.last_session, session_start)

\* _WriteSessionCompletion
PrivateWriteSessionCompletion(sf, d, session_completion) ==
    IF sf.storage_type # STORAGE_TYPE_SESSION THEN Raise(sf, d)
    ELSE IF HasStream(Zip(sf, d), "session_completion", sf.last_session)
    THEN Raise(sf, d)
    ELSE WriteMarker(sf, d, "session_completion", sf.last_session,
                     session_completion)

\* Mutant: the storage type is not looked at.
PrivateWriteTaskStart_AnyType(sf, d, task_start) ==
    IF HasStream(Zip(sf, d), "task_start", sf.last_task) THEN Raise(sf, d)
    ELSE WriteMarker(sf, d, "task_start", sf.last_task, task_start)

\* _WriteTaskStart
PrivateWriteTaskStart(sf, d, task_start) ==
    IF sf.storage_type # STORAGE_TYPE_TASK THEN Raise(sf, d)
    ELSE IF HasStream(Zip(sf, d), "task_start", sf.last_task) THEN Raise(sf, d)
    ELSE WriteMarker(sf, d, "task_start", sf.last_task, task_start)

\* _WriteTaskCompletion
PrivateWriteTaskCompletion(sf, d, task_completion) ==
    IF sf.storage_type # STORAGE_TYPE_TASK THEN Raise(sf, d)
    ELSE IF HasStream(Zip(sf, d), "task_completion", sf.last_task)
    THEN Raise(sf, d)
    ELSE WriteMarker(sf, d, "task_completion", sf.last_task, task_completion)

WriteSessionStart(sf, d, session_start) ==
    IF ~ sf.is_open THEN Raise(sf, d)
    ELSE IF sf.read_only THEN Raise(sf, d)
    ELSE IF sf.format_version < 20160511 THEN Ok(sf, d)
    ELSE PrivateWriteSessionStart(sf, d, session_start)

\* WriteSessionCompletion that writes the marker over full buffers.
WriteSessionCompletion_NoFlush(sf, d, session_completion) ==
    IF ~ sf.is_open THEN Raise(sf, d)
    ELSE IF sf.read_only THEN Raise(sf, d)
    ELSE IF sf.format_version < 20160511 THEN Ok(sf, d)
    ELSE LET written == PrivateWriteSessionCompletion(sf, d,
                                                      session_completion)
         IN  IF written.raised THEN written
             ELSE Ok([written.sf EXCEPT !.last_session = @ + 1], written.disk)

WriteSessionCompletion(sf, d, session_completion) ==
    IF ~ sf.is_open THEN Raise(sf, d)
    ELSE IF sf.read_only THEN Raise(sf, d)
    ELSE IF sf.format_version < 20160511 THEN Ok(sf, d)
    ELSE LET flushed == Flush(sf, d)
             written == PrivateWriteSessionCompletion(
                            flushed.sf, flushed.disk, session_completion)
         IN  IF flushed.raised THEN flushed
             ELSE IF written.raised THEN written
             ELSE Ok([written.sf EXCEPT !.last_session = @ + 1], written.disk)

WriteTaskStart(sf, d, task_start) ==
    IF ~ sf.is_open THEN Raise(sf, d)
    ELSE IF sf.read_only THEN Raise(sf, d)
    ELSE IF sf.format_version < 20160525 THEN Ok(sf, d)
    ELSE PrivateWriteTaskStart(sf, d, task_start)

WriteTaskCompletion(sf, d, task_completion) ==
    IF ~ sf.is_open THEN Raise(sf, d)
    ELSE IF sf.read_only THEN Raise(sf, d)
    ELSE IF sf.format_version < 20160525 THEN Ok(sf, d)
    ELSE LET flushed == Flush(sf, d)
         IN  IF flushed.raised THEN flushed
             ELSE PrivateWriteTaskCompletion(
                      flushed.sf, flushed.disk, task_completion)

----------------------------------------------------------------------------
(* Reading.  A value that may be None is a sequence of at most one         *)
(* element.  The table caches hold at most 5 tables and evict from 6 on;   *)
(* MaxRecords keeps the number of streams of a kind below that, so a       *)
(* table is read from its stream.                                          *)

\* _stream_offset and _entry_index of the object, with the position of its
\* _file_object in the stream (a file object not opened yet is at 0).
SerializedDataStream_init ==
    [stream_offset |-> 0, entry_index |-> 0, file_offset |-> 0]

\* The value of the size field of a stored entry.  An entry the writer
\* stored has the length of its data there; an entry damaged afterwards
\* carries the value its size field holds.
EntrySizeField(entry) ==
    IF "size" \in DOMAIN entry THEN entry.size ELSE DataLen(entry)

\* The checks of ReadEntry that raise IOError: a size out of bounds, or
\* fewer bytes of data than the size field tells.
Malformed(entry) ==
    \/ EntrySizeField(entry) > MAXIMUM_DATA_SIZE
    \/ EntrySizeField(entry) # DataLen(entry)

\* _file_object.read(size) on a stream of stream_size bytes: the position
\* after it, at most the end of the stream.
FileObjectRead(stream_size, file_offset, size) ==
    IF file_offset + size > stream_size THEN stream_size
    ELSE file_offset + size

\* ReadEntry raising IOError with the file object at file_offset:
\* _stream_offset and _entry_index stay as they were.
ReadEntryRaises(data_stream, file_offset) ==
    [data_stream |-> [data_stream EXCEPT !.file_offset = file_offset],
     data |-> <<>>, raised |-> TRUE]

\* ReadEntry once the size field was read: the size and the data of the
\* entry are checked and the entry is returned.
ReadEntryData(data_stream, stream_size, entry, size) ==
    IF size > MAXIMUM_DATA_SIZE
    THEN ReadEntryRaises(data_stream,
                         FileObjectRead(stream_size, data_stream.file_offset,
                                        DATA_ENTRY_SIZE))
    ELSE IF size # DataLen(entry)
    THEN ReadEntryRaises(data_stream,
                         FileObjectRead(stream_size, data_stream.file_offset,
                                        DATA_ENTRY_SIZE + size))
    ELSE [data_stream |->
             [stream_offset |->
                  data_stream.stream_offset + DATA_ENTRY_SIZE + size,
              entry_index |-> data_stream.entry_index + 1,
              file_offset |->
                  data_stream.file_offset + DATA_ENTRY_SIZE + size],
          data |-> <<entry>>, raised |-> FALSE]

\* ReadEntry on a stream of stream_size bytes, given the entries that start
\* where the file object is (one or none).
ReadEntryAt(data_stream, stream_size, starting) ==
    IF data_stream.file_offset >= stream_size
    THEN [data_stream |-> data_stream, data |-> <<>>, raised |-> FALSE]
    ELSE IF starting = {}
    THEN ReadEntryRaises(data_stream,
                         FileObjectRead(stream_size, data_stream.file_offset,
                                        DATA_ENTRY_SIZE))
    ELSE ReadEntryData(data_stream, stream_size,
                       CHOOSE entry \in starting : TRUE,
                       EntrySizeField(CHOOSE entry \in starting : TRUE))

\* ReadEntry at the position of the file object: the entry that starts
\* there, no data at the end of the stream, and IOError anywhere else (the
\* bytes read as the size field are bytes of serialized data, out of
\* bounds as a size).  A read that raises has moved the file object, past
\* the size field or past what there was of the data.
ReadEntry(entries, data_stream) ==
    ReadEntryAt(data_stream, StreamSize(entries),
                {entries[i] : i \in {j \in 1..Len(entries) :
                    EntryOffset(entries, j - 1) = data_stream.file_offset}})

\* SeekEntryAtOffset on the stream with the entries: a stream offset before
\* _stream_offset reopens the stream; None as offset compares below every
\* integer and skips nothing.  The skip is a read from where the file
\* object is.
SeekEntryAtOffset(entries, data_stream, entry_index, stream_offset) ==
    LET reopen == stream_offset < data_stream.stream_offset
        start == IF reopen THEN 0 ELSE data_stream.stream_offset
        file_start == IF reopen THEN 0 ELSE data_stream.file_offset
        skip_read_size == IF reopen THEN stream_offset
                          ELSE stream_offset - data_stream.stream_offset
    IN  IF skip_read_size > 0
        THEN [stream_offset |-> start + skip_read_size,
              entry_index |-> entry_index,
              file_offset |-> FileObjectRead(StreamSize(entries), file_start,
                                             skip_read_size)]
        ELSE [stream_offset |-> start, entry_index |-> entry_index,
              file_offset |-> file_start]

\* _GetSerializedDataStream on the _event_streams cache.
GetSerializedEventStream(sf, d, stream_number) ==
    IF stream_number \in DOMAIN sf.event_streams THEN Ok(sf, d)
    ELSE IF ~ HasStream(Zip(sf, d), "event_data", stream_number)
    THEN Raise(sf, d)
    ELSE Ok([sf EXCEPT !.event_streams =
                 (stream_number :> SerializedDataStream_init) @@ @], d)

\* _GetEventObjectSerializedData and _GetEventObject: the object after the
\* read and the event read, if any.  entry_index -1 is the next entry.
GetEventObject(sf, d, stream_number, entry_index) ==
    LET got == GetSerializedEventStream(sf, d, stream_number)
        zip == Zip(sf, d)
        has_offset == /\ HasStream(zip, "event_index", stream_number)
                      /\ entry_index < Len(zip["event_index"][stream_number])
        data_stream ==
            IF entry_index >= 0
            THEN SeekEntryAtOffset(
                     zip["event_data"][stream_number],
                     got.sf.event_streams[stream_number], entry_index,
                     zip["event_index"][stream_number][entry_index + 1])
            ELSE got.sf.event_streams[stream_number]
        read == ReadEntry(zip["event_data"][stream_number], data_stream)
    IN  IF got.raised \/ (entry_index >= 0 /\ ~ has_offset)
        THEN [sf |-> got.sf, event |-> <<>>]
        ELSE [sf |-> [got.sf EXCEPT !.event_streams[stream_number] =
                                       read.data_stream],
              \* no data: the end of the stream, or IOError (logged)
              event |-> IF read.data = <<>> THEN <<>>
                        ELSE <<[ReadSerialized(read.data[1]) EXCEPT
                                  !.store_number = stream_number,
                                  !.store_index = data_stream.entry_index]>>]

\* _EventsHeap: the heap tuples; heapq orders them as tuples, and two tuples
\* equal in (timestamp, stream_number, entry_index) by their event objects,
\* which have no order of their own.
EventsHeap_init == {}

\* A heap that keeps one event per stream: a push replaces the event of the
\* same stream.
EventsHeap_PushEvent_Single(heap, event, stream_number, entry_index) ==
    {item \in heap : item[2] # stream_number}
      \cup {<<event.timestamp, stream_number, entry_index, event>>}

EventsHeap_PushEvent(heap, event, stream_number, entry_index) ==
    heap \cup {<<event.timestamp, stream_number, entry_index, event>>}

HeapKey(v) == <<v[1], v[2], v[3]>>

\* The tuples heappop may return: those with the smallest key.
EventsHeap_Smallest(heap) ==
    {v \in heap : \A w \in heap : ~ LexLess(HeapKey(w), HeapKey(v))}

EventsHeap_Latest(heap) ==
    {v \in heap : \A w \in heap : ~ LexLess(HeapKey(v), HeapKey(w))}

EventsHeap_PopEvent_Latest(heap) ==
    {[heap |-> heap \ {v}, event |-> v[4], stream_number |-> v[2]] :
        v \in EventsHeap_Latest(heap)}

\* PopEvent: every outcome of heappop on a non-empty heap.
EventsHeap_PopEvent(heap) ==
    {[heap |-> heap \ {v}, event |-> v[4], stream_number |-> v[2]] :
        v \in EventsHeap_Smallest(heap)}

\* A time range is None (<<>>) or <<[start_timestamp |-> a, end_timestamp |-> b]>>.
NoTimeRange == <<>>

\* The loop "while event.timestamp == reference_timestamp" of
\* _InitializeMergeBuffer and _GetSortedEvent: the last event read has been
\* pushed; read and push until one differs from the reference or none is left.
RECURSIVE PushWhileReference(_, _, _, _, _, _)
PushWhileReference(sf, d, stream_number, entry_index, event, reference_timestamp) ==
    IF event.timestamp # reference_timestamp THEN sf
    ELSE LET got == GetEventObject(sf, d, stream_number, 0 - 1)
         IN  IF got.event = <<>> THEN got.sf
             ELSE PushWhileReference(
                      [got.sf EXCEPT !.event_heap[1] =
                          EventsHeap_PushEvent(@, got.event[1], stream_number,
                                               entry_index)],
                      d, stream_number, entry_index, got.event[1],
                      reference_timestamp)

\* The loop that skips the events before the start of the time range.
RECURSIVE SkipBeforeStart(_, _, _, _)
SkipBeforeStart(got, d, stream_number, time_range) ==
    IF got.event # <<>> /\ time_range # <<>>
       /\ got.event[1].timestamp < time_range[1].start_timestamp
    THEN SkipBeforeStart(GetEventObject(got.sf, d, stream_number, 0 - 1),
                         d, stream_number, time_range)
    ELSE got

\* The entry index _InitializeMergeBuffer starts a stream at.
FirstEntryIndex(timestamps, time_range) ==
    LET candidates == {i \in 0..(Len(timestamps) - 2) :
                          time_range[1].start_timestamp >= timestamps[i + 1]}
    IN  IF candidates = {} THEN 0 - 1
        ELSE CHOOSE i \in candidates : \A j \in candidates : i <= j

\* The body of the loop of _InitializeMergeBuffer for one stream.
InitializeMergeBufferStream(sf, d, stream_number, time_range) ==
    LET zip == Zip(sf, d)
        has_table == time_range # <<>>
                       /\ HasStream(zip, "event_timestamps", stream_number)
        timestamps == zip["event_timestamps"][stream_number]
        entry_index == IF has_table THEN FirstEntryIndex(timestamps, time_range)
                       ELSE 0 - 1
        got == SkipBeforeStart(
                   GetEventObject(sf, d, stream_number, entry_index),
                   d, stream_number, time_range)
        event == got.event[1]
    IN  IF has_table
           /\ time_range[1].start_timestamp > timestamps[Len(timestamps)]
        THEN sf
        ELSE IF got.event = <<>> THEN got.sf
        ELSE IF time_range # <<>>
                /\ event.timestamp > time_range[1].end_timestamp
        THEN got.sf
        ELSE PushWhileReference(
                 [got.sf EXCEPT !.event_heap[1] =
                     EventsHeap_PushEvent(@, event, stream_number,
                                          event.store_number)],
                 d, stream_number, event.store_number, event, event.timestamp)

RECURSIVE InitializeMergeBufferFrom(_, _, _, _)
InitializeMergeBufferFrom(sf, d, stream_numbers, time_range) ==
    IF stream_numbers = {} THEN sf
    ELSE LET n == CHOOSE x \in stream_numbers : \A y \in stream_numbers : x <= y
         IN  InitializeMergeBufferFrom(
                 InitializeMergeBufferStream(sf, d, n, time_range), d,
                 stream_numbers \ {n}, time_range)

\* _InitializeMergeBuffer
InitializeMergeBuffer(sf, d, time_range) ==
    InitializeMergeBufferFrom(
        [sf EXCEPT !.event_heap = <<EventsHeap_init>>], d,
        GetSerializedDataStreamNumbers(Zip(sf, d), "event_data"), time_range)

\* _BuildTagIndex: a dict from identifier to _EventTagIndexValue, filled
\* stream by stream and entry by entry, a later entry replacing an earlier
\* one with the same identifier.
RECURSIVE TagIndexOfTable(_, _, _)
TagIndexOfTable(index, table, stream_store_number) ==
    IF table = <<>> THEN index
    ELSE LET value == ParseTagIndexStruct(Head(table), stream_store_number)
         IN  TagIndexOfTable((TagIdentifier(value) :> value) @@ index,
                             Tail(table), stream_store_number)

RECURSIVE TagIndexOfStreams(_, _, _)
TagIndexOfStreams(index, zip, stream_numbers) ==
    IF stream_numbers = {} THEN index
    ELSE LET n == CHOOSE x \in stream_numbers : \A y \in stream_numbers : x <= y
         IN  TagIndexOfStreams(
                 TagIndexOfTable(index, zip["event_tag_index"][n], n), zip,
                 stream_numbers \ {n})

BuildTagIndex(sf, d) ==
    [sf EXCEPT !.event_tag_index =
        <<TagIndexOfStreams(<<>>, Zip(sf, d),
                            DOMAIN Zip(sf, d)["event_tag_index"])>>]

\* _GetEventTagIndexValue that tries the UUID before the numeric identifier.
GetEventTagIndexValue_UuidFirst(sf, d, store_number, entry_index, uuid) ==
    LET sf1 == IF sf.event_tag_index = <<>> THEN BuildTagIndex(sf, d) ELSE sf
        index == sf1.event_tag_index[1]
        numeric == <<"numeric", store_number, entry_index>>
        by_uuid == <<"uuid", uuid, 0>>
    IN  [sf |-> sf1,
         value |-> IF by_uuid \in DOMAIN index THEN <<index[by_uuid]>>
                   ELSE IF numeric \in DOMAIN index THEN <<index[numeric]>>
                   ELSE <<>>]

\* _GetEventTagIndexValue: the object (its index built) and the value found,
\* by the numeric identifier first and by the UUID second.
GetEventTagIndexValue(sf, d, store_number, entry_index, uuid) ==
    LET sf1 == IF sf.event_tag_index = <<>> THEN BuildTagIndex(sf, d) ELSE sf
        index == sf1.event_tag_index[1]
        numeric == <<"numeric", store_number, entry_index>>
        by_uuid == <<"uuid", uuid, 0>>
    IN  [sf |-> sf1,
         value |-> IF numeric \in DOMAIN index THEN <<index[numeric]>>
                   ELSE IF by_uuid \in DOMAIN index THEN <<index[by_uuid]>>
                   ELSE <<>>]

\* _ReadEventTagByIdentifier: the stream is chosen by the value's
\* store_number and the entry by the value's store_index.
ReadEventTagByIdentifier(sf, d, store_number, entry_index, uuid) ==
    LET found == GetEventTagIndexValue(sf, d, store_number, entry_index, uuid)
        tag_index_value == found.value[1]
        zip == Zip(sf, d)
        entries == zip["event_tag_data"][tag_index_value.store_number]
        data_stream == SeekEntryAtOffset(entries, SerializedDataStream_init,
                                         entry_index,
                                         tag_index_value.store_index)
        read == ReadEntry(entries, data_stream)
    IN  IF found.value = <<>>
        THEN [sf |-> found.sf, tag |-> <<>>, raised |-> FALSE]
        ELSE IF ~ HasStream(zip, "event_tag_data", tag_index_value.store_number)
        THEN [sf |-> found.sf, tag |-> <<>>, raised |-> TRUE]
        ELSE IF read.raised
        THEN [sf |-> found.sf, tag |-> <<>>, raised |-> TRUE]
        ELSE [sf |-> found.sf,
              tag |-> IF read.data = <<>> THEN <<>>
                      ELSE <<ReadSerialized(read.data[1])>>,
              raised |-> FALSE]

\* _GetSortedEvent after the pop.
GetSortedEventPopped(sf, d, time_range, popped) ==
    LET event == popped.event
        stream_number == popped.stream_number
        sf1 == [sf EXCEPT !.event_heap[1] = popped.heap]
        got == GetEventObject(sf1, d, stream_number, 0 - 1)
        next_event == got.event[1]
        sf2 == IF got.event = <<>> THEN got.sf
               ELSE PushWhileReference(
                        [got.sf EXCEPT !.event_heap[1] =
                            EventsHeap_PushEvent(@, next_event, stream_number,
                                                 event.store_index)],
                        d, stream_number, event.store_index, next_event,
                        next_event.timestamp)
        read == ReadEventTagByIdentifier(sf2, d, event.store_number,
                                         event.store_index, event.uuid)
    IN  IF time_range # <<>>
           /\ event.timestamp > time_range[1].end_timestamp
        THEN [sf |-> sf1, event |-> <<>>, raised |-> FALSE]
        ELSE IF read.raised
        THEN [sf |-> read.sf, event |-> <<>>, raised |-> TRUE]
        ELSE [sf |-> read.sf, event |-> <<[event EXCEPT !.tag = read.tag]>>,
              raised |-> FALSE]

\* _GetSortedEvent: every outcome of one call.  An _EventsHeap object is
\* true whatever it holds, so the merge buffer is initialized once.
GetSortedEvent(sf, d, time_range) ==
    LET sf1 == IF sf.event_heap = <<>>
               THEN InitializeMergeBuffer(sf, d, time_range) ELSE sf
    IN  IF sf1.event_heap[1] = {}
        THEN {[sf |-> sf1, event |-> <<>>, raised |-> FALSE]}
        ELSE {GetSortedEventPopped(sf1, d, time_range, popped) :
                 popped \in EventsHeap_PopEvent(sf1.event_heap[1])}

\* EventTag.string_key (plaso.containers.events): the UUID of the tagged
\* event if the tag has one, "store_number:store_index" otherwise.
StringKey(event_tag) ==
    IF event_tag.event_uuid # None THEN <<"uuid", event_tag.event_uuid, 0>>
    ELSE <<"numeric", event_tag.store_number, event_tag.store_index>>

\* EventTag.AddComment and AddLabels with the stored tag's comment and
\* labels: the tag's attribute values grow by the stored ones.
MergeEventTag(event_tag, stored_event_tag) ==
    [event_tag EXCEPT !.payload = @ + stored_event_tag.payload]

\* The loop of AddEventTags over the tags not yet added.
RECURSIVE AddEventTagsLoop(_, _, _)
AddEventTagsLoop(sf, d, event_tags) ==
    IF event_tags = <<>> THEN Ok(sf, d)
    ELSE LET event_tag == Head(event_tags)
             index == sf.event_tag_index[1]
             found == StringKey(event_tag) \in DOMAIN index
             tag_index_value == index[StringKey(event_tag)]
             zip == Zip(sf, d)
             read == ReadEntry(
                         zip["event_tag_data"][tag_index_value.store_number],
                         SeekEntryAtOffset(
                             zip["event_tag_data"][
                                 tag_index_value.store_number],
                             SerializedDataStream_init, 0,
                             tag_index_value.offset))
             added == AddEventTag(
                          sf, d,
                          IF found
                          THEN MergeEventTag(event_tag,
                                             ReadSerialized(read.data[1]))
                          ELSE event_tag)
         IN  IF found /\ ~ HasStream(zip, "event_tag_data",
                                     tag_index_value.store_number)
             THEN Raise(sf, d)
             ELSE IF found /\ read.raised THEN Raise(sf, d)
             ELSE IF found /\ read.data = <<>>
             THEN AddEventTagsLoop(sf, d, Tail(event_tags))
             ELSE IF added.raised THEN added
             ELSE AddEventTagsLoop(added.sf, added.disk, Tail(event_tags))

\* AddEventTags that keeps the index it built.
AddEventTags_KeepIndex(sf, d, event_tags) ==
    IF ~ sf.is_open THEN Raise(sf, d)
    ELSE IF sf.read_only THEN Raise(sf, d)
    ELSE LET sf1 == IF sf.event_tag_index = <<>> THEN BuildTagIndex(sf, d)
                    ELSE sf
             added == AddEventTagsLoop(sf1, d, event_tags)
         IN  Then(added, WriteSerializedEventTags)

AddEventTags(sf, d, event_tags) ==
    IF ~ sf.is_open THEN Raise(sf, d)
    ELSE IF sf.read_only THEN Raise(sf, d)
    ELSE LET sf1 == IF sf.event_tag_index = <<>> THEN BuildTagIndex(sf, d)
                    ELSE sf
             added == AddEventTagsLoop(sf1, d, event_tags)
             written == Then(added, WriteSerializedEventTags)
         IN  IF written.raised THEN written
             ELSE Ok([written.sf EXCEPT !.event_tag_index = <<>>],
                     written.disk)

----------------------------------------------------------------------------
(* Reading whole collections: GetErrors, GetEventSources, GetEventTags,   *)
(* GetAnalysisReports and GetEvents run to the end.                        *)

\* The streams prefix.1 .. prefix.(stream_number - 1), each read entry by
\* entry from its start; IOError at the first of them that is missing.
RECURSIVE WellFormedPrefix(_)
WellFormedPrefix(entries) ==
    IF entries = <<>> THEN <<>>
    ELSE IF Malformed(Head(entries)) THEN <<>>
    ELSE <<Head(entries)>> \o WellFormedPrefix(Tail(entries))

\* The entries read from the streams n .. stream_number - 1 of one kind:
\* a stream that is missing and an entry ReadEntry raises on end the read
\* with IOError.
RECURSIVE ReadStreams(_, _, _, _)
ReadStreams(zip, kind, n, stream_number) ==
    IF n >= stream_number THEN [entries |-> <<>>, raised |-> FALSE]
    ELSE IF ~ HasStream(zip, kind, n) THEN [entries |-> <<>>, raised |-> TRUE]
    ELSE LET read == WellFormedPrefix(zip[kind][n])
             rest == ReadStreams(zip, kind, n + 1, stream_number)
         IN  IF Len(read) < Len(zip[kind][n])
             THEN [entries |-> read, raised |-> TRUE]
             ELSE [entries |-> read \o rest.entries, raised |-> rest.raised]

GetAttributeContainers(sf, d, kind, stream_number) ==
    LET read == ReadStreams(Zip(sf, d), kind, 1, stream_number)
    IN  [containers |->
             [i \in 1..Len(read.entries) |-> ReadSerialized(read.entries[i])],
         raised |-> read.raised]

GetErrors(sf, d) ==
    GetAttributeContainers(sf, d, "error_data", sf.error_stream_number)

GetEventSources(sf, d) ==
    GetAttributeContainers(sf, d, "event_source_data",
                           sf.event_source_stream_number)

GetEventTags(sf, d) ==
    GetAttributeContainers(sf, d, "event_tag_data",
                           sf.event_tag_stream_number)

\* Every stream whose name starts with analysis_report_data.
GetAnalysisReports(sf, d) ==
    LET entries == AllEntries(Zip(sf, d), "analysis_report_data")
    IN  [containers |->
             [i \in 1..Len(entries) |-> ReadSerialized(entries[i])],
         raised |-> FALSE]

\* GetEvents: _GetSortedEvent until it returns no event; every outcome.
RECURSIVE GetEvents(_, _, _)
GetEvents(sf, d, time_range) ==
    UNION {IF r.raised
           THEN {[sf |-> r.sf, containers |-> <<>>, raised |-> TRUE]}
           ELSE IF r.event = <<>>
           THEN {[sf |-> r.sf, containers |-> <<>>, raised |-> FALSE]}
           ELSE {[rest EXCEPT !.containers = <<r.event[1]>> \o @] :
                    rest \in GetEvents(r.sf, d, time_range)} :
           r \in GetSortedEvent(sf, d, time_range)}

\* GetNumberOfEventSources: the offsets of the event source tables plus the
\* event sources still buffered.
GetNumberOfEventSources(sf, d) ==
    LET numbers == 1..(sf.event_source_stream_number - 1)
        zip == Zip(sf, d)
    IN  IF \E n \in numbers : ~ HasStream(zip, "event_source_index", n)
        THEN [value |-> 0, raised |-> TRUE]
        ELSE [value |->
                  Len(ConcatStreams(zip["event_source_index"], numbers))
                    + Len(sf.event_sources_list.list),
              raised |-> FALSE]

----------------------------------------------------------------------------
(* ZIPStorageFileWriter: the storage writer of a session or of a task.     *)
(* Its _storage_file is None (the empty sequence) or a StorageFile.  The   *)
(* outcome of a call is the writer, the file system, whether it raised     *)
(* and the value returned.  The file system is the map of its files: a     *)
(* directory exists once it is named.                                      *)

ZIPStorageFileWriter_init(output_file, buffer_size, storage_type) ==
    [buffer_size |-> buffer_size,
     event_tags |-> <<>>,
     merge_task_storage_path |-> NoPath,
     output_file |-> output_file,
     storage_file |-> <<>>,
     task_storage_path |-> NoPath,
     storage_type |-> storage_type,
     event_source_index |-> 0,
     number_of_errors |-> 0,
     number_of_events |-> 0,
     number_of_event_sources |-> 0]

WriterOk(w, d, value) ==
    [w |-> w, disk |-> d, raised |-> FALSE, value |-> value]
WriterRaise(w, d) ==
    [w |-> w, disk |-> d, raised |-> TRUE, value |-> None]

\* StorageFile.__init__: a ZIPStorageFile constructed and opened for
\* writing.
StorageFile_init(d, output_file, buffer_size, storage_type) ==
    Open(ZIPStorageFile_init(buffer_size, storage_type), d, output_file,
         FALSE)

\* ZIPStorageFileReader.__init__: a ZIPStorageFile constructed with its
\* defaults and opened read-only.
ZIPStorageFileReader_init(d, input_file) ==
    Open(ZIPStorageFile_init(MaximumBufferSize, STORAGE_TYPE_SESSION), d,
         input_file, TRUE)

Writer_Open(w, d) ==
    IF w.storage_file # <<>> THEN WriterRaise(w, d)
    ELSE LET r == StorageFile_init(d, w.output_file, w.buffer_size,
                                   w.storage_type)
             n == GetNumberOfEventSources(r.sf, r.disk)
         IN  IF r.raised THEN WriterRaise(w, r.disk)
             ELSE IF n.raised
             THEN WriterRaise([w EXCEPT !.storage_file = <<r.sf>>], r.disk)
             ELSE WriterOk([w EXCEPT !.storage_file = <<r.sf>>,
                                     !.event_source_index = n.value],
                           r.disk, None)

\* The call of the writer handed to its storage file.
OnStorageFile(w, r) ==
    [w |-> [w EXCEPT !.storage_file = <<r.sf>>], disk |-> r.disk,
     raised |-> r.raised, value |-> None]

Writer_AddError(w, d, error) ==
    IF w.storage_file = <<>> THEN WriterRaise(w, d)
    ELSE LET r == OnStorageFile(w, AddError(w.storage_file[1], d, error))
         IN  IF r.raised THEN r
             ELSE [r EXCEPT !.w.number_of_errors = @ + 1]

Writer_AddEvent(w, d, event) ==
    IF w.storage_file = <<>> THEN WriterRaise(w, d)
    ELSE LET r == OnStorageFile(w, AddEvent(w.storage_file[1], d, event))
         IN  IF r.raised THEN r
             ELSE [r EXCEPT !.w.number_of_events = @ + 1]

Writer_AddEventSource(w, d, event_source) ==
    IF w.storage_file = <<>> THEN WriterRaise(w, d)
    ELSE LET r == OnStorageFile(
                      w, AddEventSource(w.storage_file[1], d, event_source))
         IN  IF r.raised THEN r
             ELSE [r EXCEPT !.w.number_of_event_sources = @ + 1]

\* The tag is kept in the writer's list; the storage file is not called.
Writer_AddEventTag(w, d, event_tag) ==
    IF w.storage_file = <<>> THEN WriterRaise(w, d)
    ELSE WriterOk([w EXCEPT !.event_tags = Append(@, event_tag)], d, None)

\* The analysis reports of the model carry no event tags of their own.
Writer_AddAnalysisReport(w, d, analysis_report) ==
    IF w.storage_file = <<>> THEN WriterRaise(w, d)
    ELSE OnStorageFile(
             w, AddAnalysisReport(w.storage_file[1], d, analysis_report))

Writer_Close(w, d) ==
    IF w.storage_file = <<>> THEN WriterRaise(w, d)
    ELSE LET r == OnStorageFile(w, Close(w.storage_file[1], d))
         IN  IF r.raised THEN r
             ELSE [r EXCEPT !.w.storage_file = <<>>]

----------------------------------------------------------------------------
(* The task storage protocol of a session writer. *)

\* The name of the file of a task.
TaskFileName(task_name) == task_name \o ".plaso"

\* tempfile.mkdtemp(dir=directory)
MakeTempDirectory(directory) == JoinPath(directory, "task_storage")

\* A directory is a file system entry of its own: os.mkdir and
\* tempfile.mkdtemp make it, os.rmdir removes it when nothing is inside
\* it, shutil.rmtree removes it with everything inside it.
Directory == [directory |-> TRUE]
IsDirectory(d, path) == path \in DOMAIN d /\ "directory" \in DOMAIN d[path]
MakeDirectory(d, path) == (path :> Directory) @@ d
Inside(path, directory) ==
    /\ Len(path) > Len(directory)
    /\ SubSeq(path, 1, Len(directory)) = directory
DirectoryIsEmpty(d, directory) == ~ \E p \in DOMAIN d : Inside(p, directory)
RemoveTree(d, directory) ==
    [p \in {q \in DOMAIN d : q # directory /\ ~ Inside(q, directory)} |->
        d[p]]

\* Mutant: task storage is started again while it is started.
StartTaskStorage_Restart(w, d) ==
    IF w.storage_type # STORAGE_TYPE_SESSION THEN WriterRaise(w, d)
    ELSE LET task_storage_path == MakeTempDirectory(DirName(w.output_file))
             merge_task_storage_path == JoinPath(task_storage_path, "merge")
         IN  WriterOk([w EXCEPT
                          !.task_storage_path = task_storage_path,
                          !.merge_task_storage_path =
                              merge_task_storage_path],
                      MakeDirectory(MakeDirectory(d, task_storage_path),
                                    merge_task_storage_path),
                      None)

StartTaskStorage(w, d) ==
    IF w.storage_type # STORAGE_TYPE_SESSION THEN WriterRaise(w, d)
    ELSE IF w.task_storage_path # NoPath THEN WriterRaise(w, d)
    ELSE LET task_storage_path == MakeTempDirectory(DirName(w.output_file))
             merge_task_storage_path == JoinPath(task_storage_path, "merge")
         IN  WriterOk([w EXCEPT
                          !.task_storage_path = task_storage_path,
                          !.merge_task_storage_path =
                              merge_task_storage_path],
                      MakeDirectory(MakeDirectory(d, task_storage_path),
                                    merge_task_storage_path),
                      None)

\* Mutant: the directories are removed with their contents whether or not
\* the stop is an abort.
StopTaskStorage_Recursive(w, d, abort) ==
    IF w.storage_type # STORAGE_TYPE_SESSION THEN WriterRaise(w, d)
    ELSE IF w.task_storage_path = NoPath THEN WriterRaise(w, d)
    ELSE WriterOk([w EXCEPT !.task_storage_path = NoPath,
                            !.merge_task_storage_path = NoPath],
                  RemoveTree(d, w.task_storage_path), None)

\* StopTaskStorage: os.rmdir raises OSError when the directory is not
\* empty; the directory of the merge is removed before the directory of
\* the task storage is looked at.
StopTaskStorage(w, d, abort) ==
    LET merge_is_directory == IsDirectory(d, w.merge_task_storage_path)
        d1 == IF ~ merge_is_directory THEN d
              ELSE IF abort THEN RemoveTree(d, w.merge_task_storage_path)
              ELSE RemoveFile(d, w.merge_task_storage_path)
        task_is_directory == IsDirectory(d1, w.task_storage_path)
        d2 == IF ~ task_is_directory THEN d1
              ELSE IF abort THEN RemoveTree(d1, w.task_storage_path)
              ELSE RemoveFile(d1, w.task_storage_path)
    IN  IF w.storage_type # STORAGE_TYPE_SESSION THEN WriterRaise(w, d)
        ELSE IF w.task_storage_path = NoPath THEN WriterRaise(w, d)
        ELSE IF /\ merge_is_directory /\ ~ abort
                /\ ~ DirectoryIsEmpty(d, w.merge_task_storage_path)
        THEN WriterRaise(w, d)
        ELSE IF /\ task_is_directory /\ ~ abort
                /\ ~ DirectoryIsEmpty(d1, w.task_storage_path)
        THEN WriterRaise(w, d1)
        ELSE WriterOk([w EXCEPT !.task_storage_path = NoPath,
                                !.merge_task_storage_path = NoPath],
                      d2, None)

\* The value returned is the storage writer of the task.
CreateTaskStorage(w, d, task_name) ==
    IF w.storage_type # STORAGE_TYPE_SESSION THEN WriterRaise(w, d)
    ELSE IF w.task_storage_path = NoPath THEN WriterRaise(w, d)
    ELSE WriterOk(w, d,
                  ZIPStorageFileWriter_init(
                      JoinPath(w.task_storage_path, TaskFileName(task_name)),
                      w.buffer_size, STORAGE_TYPE_TASK))

\* os.rename raises OSError when the file of the task or the directory
\* of the merge does not exist.
PrepareMergeTaskStorage(w, d, task_name) ==
    LET storage_file_path ==
            JoinPath(w.task_storage_path, TaskFileName(task_name))
        merge_storage_file_path ==
            JoinPath(w.merge_task_storage_path, TaskFileName(task_name))
    IN  IF w.storage_type # STORAGE_TYPE_SESSION THEN WriterRaise(w, d)
        ELSE IF w.task_storage_path = NoPath THEN WriterRaise(w, d)
        ELSE IF ~ FileExists(d, storage_file_path) THEN WriterRaise(w, d)
        ELSE IF ~ IsDirectory(d, w.merge_task_storage_path)
        THEN WriterRaise(w, d)
        ELSE WriterOk(w, RenameFile(d, storage_file_path,
                                    merge_storage_file_path), None)

\* Mutant: the file is looked for in the task storage directory.
CheckTaskStorageReadyForMerge_TaskPath(w, d, task_name) ==
    IF w.storage_type # STORAGE_TYPE_SESSION THEN WriterRaise(w, d)
    ELSE IF w.merge_task_storage_path = NoPath THEN WriterRaise(w, d)
    ELSE WriterOk(w, d,
                  FileExists(d, JoinPath(w.task_storage_path,
                                         TaskFileName(task_name))))

CheckTaskStorageReadyForMerge(w, d, task_name) ==
    IF w.storage_type # STORAGE_TYPE_SESSION THEN WriterRaise(w, d)
    ELSE IF w.merge_task_storage_path = NoPath THEN WriterRaise(w, d)
    ELSE WriterOk(w, d,
                  FileExists(d, JoinPath(w.merge_task_storage_path,
                                         TaskFileName(task_name))))

\* The Add* operation of the writer for a container.
Writer_Add(w, d, container) ==
    CASE container.type = "error" -> Writer_AddError(w, d, container)
      [] container.type = "event" -> Writer_AddEvent(w, d, container)
      [] container.type = "event_source" ->
           Writer_AddEventSource(w, d, container)
      [] container.type = "event_tag" -> Writer_AddEventTag(w, d, container)
      [] container.type = "analysis_report" ->
           Writer_AddAnalysisReport(w, d, container)

\* The containers replayed one after the other; the first Add* that raises
\* ends the replay.
RECURSIVE Replay(_, _, _)
Replay(w, d, containers) ==
    IF containers = <<>> THEN WriterOk(w, d, None)
    ELSE LET r == Writer_Add(w, d, Head(containers))
         IN  IF r.raised THEN r ELSE Replay(r.w, r.disk, Tail(containers))

\* The collections read from a storage reader replayed in turn: an
\* exception of a Get* generator or of an Add* operation ends the replay.
RECURSIVE ReplayCollections(_, _, _)
ReplayCollections(w, d, collections) ==
    IF collections = <<>> THEN WriterOk(w, d, None)
    ELSE LET r == Replay(w, d, Head(collections).containers)
         IN  IF r.raised THEN r
             ELSE IF Head(collections).raised THEN WriterRaise(r.w, r.disk)
             ELSE ReplayCollections(r.w, r.disk, Tail(collections))

\* StorageWriter.MergeFromStorage (plaso.storage.interface): the errors,
\* events, event sources, event tags and analysis reports of the reader
\* replayed through the Add* operations of this writer.  Every outcome,
\* with the storage file of the reader after the reads.
MergeFromStorage(w, d, storage_reader) ==
    {[writer |->
         ReplayCollections(
             w, d,
             <<GetErrors(storage_reader, d),
               [containers |-> events.containers, raised |-> events.raised],
               GetEventSources(storage_reader, d),
               GetEventTags(storage_reader, d),
               GetAnalysisReports(storage_reader, d)>>),
      storage_reader |-> events.sf] :
        events \in GetEvents(storage_reader, d, NoTimeRange)}

\* MergeTaskStorage: every outcome.
MergeTaskStorage(w, d, task_name) ==
    LET storage_file_path ==
            JoinPath(w.merge_task_storage_path, TaskFileName(task_name))
        opened == ZIPStorageFileReader_init(d, storage_file_path)
    IN  IF w.storage_type # STORAGE_TYPE_SESSION THEN {WriterRaise(w, d)}
        ELSE IF w.merge_task_storage_path = NoPath THEN {WriterRaise(w, d)}
        ELSE IF ~ FileExists(d, storage_file_path)
        THEN {WriterOk(w, d, FALSE)}
        ELSE IF opened.raised THEN {WriterRaise(w, opened.disk)}
        ELSE {LET closed == Close(merged.storage_reader, merged.writer.disk)
              IN  IF merged.writer.raised THEN merged.writer
                  ELSE IF closed.raised
                  THEN WriterRaise(merged.writer.w, closed.disk)
                  ELSE WriterOk(merged.writer.w,
                                RemoveFile(closed.disk, storage_file_path),
                                TRUE) :
                 merged \in MergeFromStorage(w, opened.disk, opened.sf)}

----------------------------------------------------------------------------
(* Inputs and bookkeeping of the specifications. *)

OutputFile == <<"out", "session.plaso">>

BufferKinds == {"event", "event_source", "error", "event_tag"}
RecordKinds == BufferKinds \cup {"analysis_report"}

EventInputs ==
    [type : {"event"}, timestamp : Timestamps, payload : Payloads,
     uuid : {1}]
EventTagInputs ==
    [type : {"event_tag"}, payload : Payloads, store_number : {1},
     store_index : 0..1, event_uuid : {None}]
OtherInputs(type) == [type : {type}, payload : Payloads]

DataKinds ==
    {"event_data", "event_source_data", "event_tag_data", "error_data",
     "analysis_report_data", "session_start", "session_completion",
     "task_start", "task_completion"}

RECURSIVE CountEntries(_, _)
CountEntries(zip, kinds) ==
    IF kinds = {} THEN 0
    ELSE LET k == CHOOSE x \in kinds : TRUE
         IN  Len(AllEntries(zip, k)) + CountEntries(zip, kinds \ {k})

RECURSIVE CountFiles(_, _)
CountFiles(d, paths) ==
    IF paths = {} THEN 0
    ELSE LET p == CHOOSE x \in paths : TRUE
         IN  CountEntries(d[p], DataKinds) + CountFiles(d, paths \ {p})

Buffered(sf, kind) ==
    CASE kind = "event" ->
           [i \in 1..Len(sf.serialized_events_heap.heap) |->
               sf.serialized_events_heap.heap[i][2]]
      [] kind = "event_source" -> sf.event_sources_list.list
      [] kind = "error" -> sf.errors_list.list
      [] kind = "event_tag" ->
           [i \in 1..Len(sf.serialized_event_tags) |->
               sf.serialized_event_tags[i][4]]

BufferedCount(sf) ==
    Len(Buffered(sf, "event")) + Len(Buffered(sf, "event_source"))
      + Len(Buffered(sf, "error")) + Len(Buffered(sf, "event_tag"))

RECURSIVE CountAccepted(_)
CountAccepted(kinds) ==
    IF kinds = {} THEN 0
    ELSE LET k == CHOOSE x \in kinds : TRUE
         IN  BagCardinality(accepted[k]) + CountAccepted(kinds \ {k})

\* The model stops adding once MaxRecords records are buffered or stored, or
\* have been accepted since the container was opened.
RoomLeft ==
    /\ BufferedCount(storage_file) + CountFiles(disk, StorageFiles(disk))
         < MaxRecords
    /\ CountAccepted(RecordKinds) < MaxRecords

NoAccepted == [k \in RecordKinds |-> EmptyBag]

ReaderIdle == [phase |-> "idle"]

\* No storage writer has been constructed.
NoWriters == <<>>

NoArgument == [type |-> "none", payload |-> 0]

\* The step of a call: its outcome becomes the state.  result remembers the
\* call, its argument and the number of records buffered when it was made.
Returns(op, r, argument) ==
    /\ storage_file' = r.sf
    /\ disk' = r.disk
    /\ result' = [op |-> op, raised |-> r.raised, argument |-> argument,
                  buffered |-> BufferedCount(storage_file)]

Accepts(kind, r, container) ==
    accepted' = IF r.raised THEN accepted
                ELSE [accepted EXCEPT ![kind] =
                         @ (+) SetToBag({WriteSerialized(container)})]

----------------------------------------------------------------------------
(* Specification Spec: one storage file through its life cycle.            *)

Init ==
    /\ storage_file \in
         {ZIPStorageFile_init(MaximumBufferSize, t) : t \in STORAGE_TYPES}
    /\ disk = <<>>
    /\ result = [op |-> "__init__", raised |-> FALSE, argument |-> NoArgument,
                 buffered |-> 0]
    /\ accepted = NoAccepted
    /\ reader = ReaderIdle
    /\ writers = NoWriters

CallConstruct ==
    /\ ~ storage_file.zipfile
    /\ \E t \in STORAGE_TYPES :
         storage_file' = ZIPStorageFile_init(MaximumBufferSize, t)
    /\ result' = [op |-> "__init__", raised |-> FALSE, argument |-> NoArgument,
                  buffered |-> 0]
    /\ accepted' = NoAccepted
    /\ UNCHANGED <<disk, reader, writers>>

CallOpen ==
    \E read_only \in BOOLEAN :
       LET r == Open(storage_file, disk, OutputFile, read_only)
       IN  /\ Returns("Open", r, NoArgument)
           /\ accepted' = IF r.raised THEN accepted ELSE NoAccepted
           /\ UNCHANGED <<reader, writers>>

CallAddEvent ==
    /\ RoomLeft
    /\ \E event \in EventInputs :
         LET r == AddEvent(storage_file, disk, event)
         IN  /\ Returns("AddEvent", r, event)
             /\ Accepts("event", r, event)
    /\ UNCHANGED <<reader, writers>>

CallAddEventSource ==
    /\ RoomLeft
    /\ \E event_source \in OtherInputs("event_source") :
         LET r == AddEventSource(storage_file, disk, event_source)
         IN  /\ Returns("AddEventSource", r, event_source)
             /\ Accepts("event_source", r, event_source)
    /\ UNCHANGED <<reader, writers>>

CallAddError ==
    /\ RoomLeft
    /\ \E error \in OtherInputs("error") :
         LET r == AddError(storage_file, disk, error)
         IN  /\ Returns("AddError", r, error)
             /\ Accepts("error", r, error)
    /\ UNCHANGED <<reader, writers>>

CallAddEventTag ==
    /\ RoomLeft
    /\ \E event_tag \in EventTagInputs :
         LET r == AddEventTag(storage_file, disk, event_tag)
         IN  /\ Returns("AddEventTag", r, event_tag)
             /\ Accepts("event_tag", r, event_tag)
    /\ UNCHANGED <<reader, writers>>

\* AddEventTags writes the tags it was given, merged with the stored tags of
\* the same events, before it returns: it leaves nothing for a later flush.
CallAddEventTags ==
    /\ RoomLeft
    /\ \E event_tag \in EventTagInputs :
         Returns("AddEventTags",
                 AddEventTags(storage_file, disk, <<event_tag>>), event_tag)
    /\ UNCHANGED <<accepted, reader, writers>>

CallAddAnalysisReport ==
    /\ RoomLeft
    /\ \E analysis_report \in OtherInputs("analysis_report") :
         LET r == AddAnalysisReport(storage_file, disk, analysis_report)
         IN  /\ Returns("AddAnalysisReport", r, analysis_report)
             /\ Accepts("analysis_report", r, analysis_report)
    /\ UNCHANGED <<reader, writers>>

CallWriteSessionStart ==
    /\ RoomLeft
    /\ Returns("WriteSessionStart",
               WriteSessionStart(storage_file, disk,
                                 [type |-> "session_start", payload |-> 1]),
               [type |-> "session_start", payload |-> 1])
    /\ UNCHANGED <<accepted, reader, writers>>

CallWriteSessionCompletion ==
    /\ RoomLeft
    /\ Returns("WriteSessionCompletion",
               WriteSessionCompletion(
                   storage_file, disk,
                   [type |-> "session_completion", payload |-> 1]),
               [type |-> "session_completion", payload |-> 1])
    /\ UNCHANGED <<accepted, reader, writers>>

CallWriteTaskStart ==
    /\ RoomLeft
    /\ Returns("WriteTaskStart",
               WriteTaskStart(storage_file, disk,
                              [type |-> "task_start", payload |-> 1]),
               [type |-> "task_start", payload |-> 1])
    /\ UNCHANGED <<accepted, reader, writers>>

CallWriteTaskCompletion ==
    /\ RoomLeft
    /\ Returns("WriteTaskCompletion",
               WriteTaskCompletion(
                   storage_file, disk,
                   [type |-> "task_completion", payload |-> 1]),
               [type |-> "task_completion", payload |-> 1])
    /\ UNCHANGED <<accepted, reader, writers>>

CallFlush ==
    /\ Returns("Flush", Flush(storage_file, disk), NoArgument)
    /\ UNCHANGED <<accepted, reader, writers>>

CallClose ==
    /\ Returns("Close", Close(storage_file, disk), NoArgument)
    /\ UNCHANGED <<accepted, reader, writers>>

Next ==
    \/ CallConstruct
    \/ CallOpen
    \/ CallAddEvent
    \/ CallAddEventSource
    \/ CallAddError
    \/ CallAddEventTag
    \/ CallAddEventTags
    \/ CallAddAnalysisReport
    \/ CallWriteSessionStart
    \/ CallWriteSessionCompletion
    \/ CallWriteTaskStart
    \/ CallWriteTaskCompletion
    \/ CallFlush
    \/ CallClose

Spec == Init /\ [][Next]_vars

----------------------------------------------------------------------------
(* Properties of the life cycle (specification Spec). *)

BufferSize(sf, kind) ==
    CASE kind = "event" -> sf.serialized_events_heap.data_size
      [] kind = "event_source" -> sf.event_sources_list.data_size
      [] kind = "error" -> sf.errors_list.data_size
      [] kind = "event_tag" -> sf.serialized_event_tags_size

StreamNumber(sf, kind) ==
    CASE kind = "event" -> sf.event_stream_number
      [] kind = "event_source" -> sf.event_source_stream_number
      [] kind = "error" -> sf.error_stream_number
      [] kind = "event_tag" -> sf.event_tag_stream_number

DataStreamOf(kind) == kind \o "_data"
IndexStreamOf(kind) == kind \o "_index"

EventTimestampsOf(stream) == [i \in 1..Len(stream) |-> stream[i].timestamp]

OpenForWrite(sf) == sf.is_open /\ ~ sf.read_only

\* C10: in every reachable state each committed event stream has
\* non-decreasing timestamps, whatever the order in which the events were
\* added, and its timestamp table holds the same sequence.
C10_CommittedEventStreamsSorted ==
    \A p \in StorageFiles(disk) : \A n \in DOMAIN disk[p]["event_data"] :
        LET timestamps == EventTimestampsOf(disk[p]["event_data"][n])
        IN  /\ IsSortedSeq(timestamps)
            /\ HasStream(disk[p], "event_timestamps", n)
            /\ disk[p]["event_timestamps"][n] = timestamps

\* An event with timestamp 1 was added after one with timestamp 2, the add
\* flushed both, and the stream holds them as 1, 2.
C10_Witness ==
    /\ result.op = "AddEvent" /\ ~ result.raised
    /\ result.argument.timestamp = 1
    /\ result.buffered = 1
    /\ storage_file.serialized_events_heap.heap = <<>>
    /\ storage_file.event_stream_number = 2
    /\ HasStream(Zip(storage_file, disk), "event_data", 1)
    /\ Zip(storage_file, disk)["event_timestamps"][1] = <<1, 2>>

\* The records of one kind of the argument container that the step of an
\* Add call committed or kept.
ThresholdStep(op, kind) ==
    (result'.op = op /\ ~ result'.raised /\ OpenForWrite(storage_file)) =>
        LET data == WriteSerialized(result'.argument)
            size == BufferSize(storage_file, kind) + DataLen(data)
            n == StreamNumber(storage_file, kind)
        IN  IF size > storage_file.maximum_buffer_size
            THEN /\ StreamNumber(storage_file', kind) = n + 1
                 /\ BufferSize(storage_file', kind) = 0
                 /\ Buffered(storage_file', kind) = <<>>
                 /\ HasStream(Zip(storage_file', disk'), DataStreamOf(kind), n)
                 /\ SeqToBag(Zip(storage_file', disk')[DataStreamOf(kind)][n])
                      = SeqToBag(Buffered(storage_file, kind))
                          (+) SetToBag({data})
                 /\ \A k \in BufferKinds \ {kind} :
                      /\ StreamNumber(storage_file', k)
                           = StreamNumber(storage_file, k)
                      /\ Buffered(storage_file', k) = Buffered(storage_file, k)
                 /\ \A k \in DataKinds \ {DataStreamOf(kind)} :
                      Zip(storage_file', disk')[k] = Zip(storage_file, disk)[k]
            ELSE /\ \A k \in BufferKinds :
                      StreamNumber(storage_file', k)
                        = StreamNumber(storage_file, k)
                 /\ BufferSize(storage_file', kind) = size
                 /\ disk' = disk

\* C6: for AddEvent, AddEventSource and AddError on a container open for
\* write, the call after which the buffered size of that kind exceeds the
\* maximum flushes that buffer exactly once: one new stream of that kind
\* holding the buffered records and the added one, the counter one higher,
\* the buffer empty with size 0, nothing of another kind touched; a call
\* after which the size does not exceed the maximum writes nothing.
C6_FlushThreshold ==
    [][/\ ThresholdStep("AddEvent", "event")
       /\ ThresholdStep("AddEventSource", "event_source")
       /\ ThresholdStep("AddError", "error")]_vars

\* An AddEventSource call found one buffered event source and flushed both
\* into event source stream 1.
C6_Witness ==
    /\ result.op = "AddEventSource" /\ ~ result.raised
    /\ result.buffered = 1
    /\ storage_file.event_source_stream_number = 2
    /\ storage_file.event_sources_list = AttributeContainersList_init
    /\ Len(Zip(storage_file, disk)["event_source_data"][1]) = 2

\* C5: when Close returns on a container that was open for write, every
\* buffer is empty and every record accepted by an Add call since Open is in
\* a committed stream of the container file.
C5_CloseFlushes ==
    [][(result'.op = "Close" /\ ~ result'.raised
          /\ OpenForWrite(storage_file)) =>
         /\ \A k \in BufferKinds :
              /\ Buffered(storage_file', k) = <<>>
              /\ BufferSize(storage_file', k) = 0
         /\ FileExists(disk', storage_file.path)
         /\ \A k \in RecordKinds :
              accepted[k] \sqsubseteq
                SeqToBag(AllEntries(disk'[storage_file.path], DataStreamOf(k)))
      ]_vars

\* Close was called with an event tag and an error still buffered, and
\* both are in the container file afterwards.
C5_Witness ==
    /\ result.op = "Close" /\ ~ result.raised
    /\ result.buffered >= 2
    /\ accepted["event_tag"] # EmptyBag
    /\ accepted["error"] # EmptyBag
    /\ FileExists(disk, OutputFile)
    /\ AllEntries(disk[OutputFile], "event_tag_data") # <<>>
    /\ AllEntries(disk[OutputFile], "error_data") # <<>>
    /\ BufferedCount(storage_file) = 0

\* C7: the AddEventTag call after which the buffered event tag size exceeds
\* the maximum drains the tag buffer into a new event_tag_data and
\* event_tag_index stream pair, raises the event tag stream number by one,
\* leaves the tag buffer empty, and changes no buffer or counter of another
\* kind.
C7_EventTagThreshold ==
    [][(/\ result'.op = "AddEventTag" /\ ~ result'.raised
        /\ BufferSize(storage_file, "event_tag")
             + DataLen(WriteSerialized(result'.argument))
             > storage_file.maximum_buffer_size) =>
         LET n == storage_file.event_tag_stream_number
         IN  /\ storage_file'.event_tag_stream_number = n + 1
             /\ storage_file'.serialized_event_tags = <<>>
             /\ storage_file'.serialized_event_tags_size = 0
             /\ HasStream(Zip(storage_file', disk'), "event_tag_data", n)
             /\ HasStream(Zip(storage_file', disk'), "event_tag_index", n)
             /\ \A k \in BufferKinds \ {"event_tag"} :
                  /\ StreamNumber(storage_file', k)
                       = StreamNumber(storage_file, k)
                  /\ Buffered(storage_file', k) = Buffered(storage_file, k)
      ]_vars

\* An AddEventTag call passed the threshold and returned with both tags
\* still buffered and no event tag stream written.
C7_Witness ==
    /\ result.op = "AddEventTag" /\ ~ result.raised
    /\ storage_file.serialized_event_tags_size
         > storage_file.maximum_buffer_size
    /\ Len(storage_file.serialized_event_tags) = 2
    /\ storage_file.event_tag_stream_number = 1
    /\ ~ HasStream(Zip(storage_file, disk), "event_tag_data", 1)

WriteOperations ==
    {"AddEvent", "AddEventSource", "AddError", "AddEventTag", "AddEventTags",
     "AddAnalysisReport", "WriteSessionStart", "WriteSessionCompletion",
     "WriteTaskStart", "WriteTaskCompletion"}

\* C8: every write operation called while the container is closed or open
\* read-only raises, and changes no buffer and no stream.
C8_WriteNeedsOpenForWrite ==
    [][(result'.op \in WriteOperations /\ ~ OpenForWrite(storage_file)) =>
         /\ result'.raised
         /\ \A k \in BufferKinds :
              Buffered(storage_file', k) = Buffered(storage_file, k)
         /\ disk' = disk
      ]_vars

\* AddError returned normally on a container that is not open, and the error
\* sits in the buffer.
C8_Witness ==
    /\ result.op = "AddError" /\ ~ result.raised
    /\ ~ storage_file.is_open
    /\ result.buffered = 0
    /\ Len(storage_file.errors_list.list) = 1

----------------------------------------------------------------------------
(* Specification SpecRead: events are written to a container, the          *)
(* container is closed, and a ZIPStorageFileReader drains GetEvents, first *)
(* without a time range and then, opened afresh, with one.                 *)

\* A buffer size no sequence of MaxRecords events exceeds.
LargeBufferSize == MaxRecords * MaxPayload

TimeRanges ==
    {<<[start_timestamp |-> a, end_timestamp |-> b]>> :
        a \in Timestamps, b \in Timestamps}

InitRead ==
    /\ storage_file \in
         {ZIPStorageFile_init(m, STORAGE_TYPE_SESSION) :
             m \in {MaximumBufferSize, LargeBufferSize}}
    /\ disk = <<>>
    /\ result = [op |-> "__init__", raised |-> FALSE, argument |-> NoArgument,
                 buffered |-> 0]
    /\ accepted = NoAccepted
    /\ reader = [phase |-> "new", added |-> <<>>, time_range |-> NoTimeRange,
                 yielded |-> <<>>, unfiltered |-> <<>>,
                 again_range |-> NoTimeRange, again |-> <<>>]
    /\ writers = NoWriters

ReadOpenForWrite ==
    /\ reader.phase = "new"
    /\ Returns("Open", Open(storage_file, disk, OutputFile, FALSE), NoArgument)
    /\ reader' = [reader EXCEPT !.phase = "write"]
    /\ UNCHANGED <<accepted, writers>>

ReadAddEvent ==
    /\ reader.phase = "write"
    /\ Len(reader.added) < MaxRecords
    /\ \E event \in EventInputs :
         /\ Returns("AddEvent", AddEvent(storage_file, disk, event), event)
         /\ reader' = [reader EXCEPT !.added = Append(@, event.timestamp)]
    /\ UNCHANGED <<accepted, writers>>

\* Close of the writing container, and of a reader that was drained.
ReadClose ==
    /\ reader.phase \in {"write", "drained"}
    /\ Returns("Close", Close(storage_file, disk), NoArgument)
    /\ reader' = [reader EXCEPT
                    !.phase = IF @ = "write" THEN "closed" ELSE "reclosed"]
    /\ UNCHANGED <<accepted, writers>>

\* ZIPStorageFileReader.__init__: a new ZIPStorageFile opened read-only,
\* and the time range of the GetEvents call made on it: none for the first
\* reader, any or none for the second.
ReadOpen ==
    /\ reader.phase \in {"closed", "reclosed"}
    /\ \E time_range \in
            IF reader.phase = "closed" THEN {NoTimeRange}
            ELSE TimeRanges \cup {NoTimeRange} :
         /\ Returns("Open",
                    Open(ZIPStorageFile_init(MaximumBufferSize,
                                             STORAGE_TYPE_SESSION),
                         disk, OutputFile, TRUE),
                    NoArgument)
         /\ reader' = [reader EXCEPT
                         !.phase = IF @ = "closed" THEN "reading"
                                   ELSE "filtering",
                         !.time_range = time_range,
                         !.yielded = <<>>]
    /\ UNCHANGED <<accepted, writers>>

\* One iteration of the GetEvents generator.
ReadGetEvents ==
    /\ reader.phase \in {"reading", "filtering"}
    /\ \E r \in GetSortedEvent(storage_file, disk, reader.time_range) :
         /\ storage_file' = r.sf
         /\ result' = [op |-> "GetEvents", raised |-> r.raised,
                       argument |-> NoArgument, buffered |-> 0]
         /\ reader' =
              IF r.event # <<>>
              THEN [reader EXCEPT !.yielded = Append(@, r.event[1])]
              ELSE IF reader.phase = "reading"
              THEN [reader EXCEPT !.phase = "drained",
                                  !.unfiltered = reader.yielded]
              ELSE [reader EXCEPT !.phase = "filtered"]
    /\ UNCHANGED <<disk, accepted, writers>>

\* One iteration of the generator of a further GetEvents call, with any
\* time range or none, on the container whose GetEvents was drained.
ReadGetEventsAgain ==
    /\ reader.phase \in {"drained", "filtered", "again"}
    /\ \E time_range \in
            IF reader.phase = "again" THEN {reader.again_range}
            ELSE TimeRanges \cup {NoTimeRange} :
         \E r \in GetSortedEvent(storage_file, disk, time_range) :
            /\ storage_file' = r.sf
            /\ result' = [op |-> "GetEvents", raised |-> r.raised,
                          argument |-> NoArgument, buffered |-> 0]
            /\ reader' =
                 IF r.event # <<>>
                 THEN [reader EXCEPT !.phase = "again",
                                     !.again_range = time_range,
                                     !.again = Append(@, r.event[1])]
                 ELSE [reader EXCEPT !.phase = "drained again",
                                     !.again_range = time_range]
    /\ UNCHANGED <<disk, accepted, writers>>

NextRead ==
    \/ ReadOpenForWrite
    \/ ReadAddEvent
    \/ ReadClose
    \/ ReadOpen
    \/ ReadGetEvents
    \/ ReadGetEventsAgain

SpecRead == InitRead /\ [][NextRead]_vars

----------------------------------------------------------------------------
(* Properties of reading (specification SpecRead). *)

TimestampsOf(events) == [i \in 1..Len(events) |-> events[i].timestamp]

\* The position of an event in the container: stream and entry.
PositionsOf(events) ==
    [i \in 1..Len(events) |-> <<events[i].store_number, events[i].store_index>>]

InTimeRange(event, time_range) ==
    \/ time_range = NoTimeRange
    \/ /\ time_range[1].start_timestamp <= event.timestamp
       /\ event.timestamp <= time_range[1].end_timestamp

SelectInTimeRange(events, time_range) ==
    LET Test(event) == InTimeRange(event, time_range)
    IN  SelectSeq(events, Test)

\* C1: whatever the order in which events were added and however many
\* threshold flushes happened, GetEvents with no time range on the closed
\* and reopened container yields non-decreasing timestamps, and when it is
\* drained it has yielded the timestamps that were added.
C1_GetEventsChronological ==
    /\ reader.phase = "reading" => IsSortedSeq(TimestampsOf(reader.yielded))
    /\ reader.phase = "drained" =>
         /\ IsSortedSeq(TimestampsOf(reader.unfiltered))
         /\ SeqToBag(TimestampsOf(reader.unfiltered)) = SeqToBag(reader.added)

\* Timestamps added as 3, 1, 2 were drained as 1, 2, 3.
C1_Witness ==
    /\ reader.phase = "drained"
    /\ reader.added = <<3, 1, 2>>
    /\ TimestampsOf(reader.unfiltered) = <<1, 2, 3>>

\* C4: GetEvents yields events in ascending order of the triple
\* (timestamp, stream_number, entry_index) and of nothing else.
C4_OrderedByTriple ==
    \A i, j \in 1..Len(reader.yielded) :
        i < j =>
            LexLess(<<reader.yielded[i].timestamp,
                      reader.yielded[i].store_number,
                      reader.yielded[i].store_index>>,
                    <<reader.yielded[j].timestamp,
                      reader.yielded[j].store_number,
                      reader.yielded[j].store_index>>)

\* One stream holds the timestamps 1, 2, 2 and GetEvents yielded its
\* entries in the order 0, 2, 1.
C4_Witness ==
    /\ reader.phase = "drained"
    /\ reader.added = <<1, 2, 2>>
    /\ PositionsOf(reader.unfiltered) = <<<<1, 0>>, <<1, 2>>, <<1, 1>>>>

\* C3: GetEvents with a time range on a freshly opened container yields
\* exactly the events of the unfiltered sequence that lie in the range, in
\* the same relative order.
C3_RangeFilter ==
    reader.phase = "filtered" =>
        PositionsOf(reader.yielded)
          = PositionsOf(SelectInTimeRange(reader.unfiltered, reader.time_range))

\* One stream holds the timestamps 1, 2, 2: the unfiltered run yielded its
\* entries in the order 0, 2, 1 and the run with the range [2, 2] yielded
\* the entries 1, 2 in that order.
C3_Witness ==
    /\ reader.phase = "filtered"
    /\ reader.added = <<1, 2, 2>>
    /\ reader.time_range = <<[start_timestamp |-> 2, end_timestamp |-> 2]>>
    /\ PositionsOf(reader.unfiltered) = <<<<1, 0>>, <<1, 2>>, <<1, 1>>>>
    /\ PositionsOf(reader.yielded) = <<<<1, 1>>, <<1, 2>>>>

\* The events a time range selects, whatever their order.
RangeFilterSameEvents ==
    reader.phase = "filtered" =>
        SeqToBag(PositionsOf(reader.yielded))
          = SeqToBag(PositionsOf(SelectInTimeRange(reader.unfiltered,
                                                   reader.time_range)))

\* C12: a second read-only reader of the same container that drains
\* GetEvents with no time range yields the sequence of events the first
\* reader yielded, events of equal timestamp included.
C12_IdempotentRead ==
    (reader.phase = "filtered" /\ reader.time_range = NoTimeRange) =>
        reader.yielded = reader.unfiltered

\* One stream holds two events of timestamp 2: the first reader yielded
\* its entries in the order 0, 1 and the second in the order 1, 0.
C12_Witness ==
    /\ reader.phase = "filtered"
    /\ reader.time_range = NoTimeRange
    /\ reader.added = <<2, 2>>
    /\ PositionsOf(reader.unfiltered) = <<<<1, 0>>, <<1, 1>>>>
    /\ PositionsOf(reader.yielded) = <<<<1, 1>>, <<1, 0>>>>

----------------------------------------------------------------------------
(* Specification SpecTag: events and event tags are written to a           *)
(* container, each event tagged at most once; the container is closed and  *)
(* a reader looks tags up by event identifier and drains GetEvents.        *)

StoreNumbers == 1..2
StoreIndexes == 0..1
Uuids == 1..2

NumericEventTagInputs ==
    [type : {"event_tag"}, payload : Payloads, store_number : StoreNumbers,
     store_index : StoreIndexes, event_uuid : {None}]
UuidEventTagInputs ==
    [type : {"event_tag"}, payload : Payloads, store_number : {None},
     store_index : {None}, event_uuid : Uuids]

\* The identifiers looked up: (store_number, store_index, uuid).
LookupIdentifiers ==
    (StoreNumbers \X StoreIndexes \X ({None} \cup Uuids)) \cup {<<9, 9, None>>}

InitTag ==
    /\ storage_file = ZIPStorageFile_init(MaximumBufferSize, STORAGE_TYPE_SESSION)
    /\ disk = <<>>
    /\ result = [op |-> "__init__", raised |-> FALSE, argument |-> NoArgument,
                 buffered |-> 0]
    /\ accepted = NoAccepted
    /\ reader = [phase |-> "new", events |-> 0, tagged |-> <<>>,
                 lookup |-> <<>>, yielded |-> <<>>]
    /\ writers = NoWriters

TagOpenForWrite ==
    /\ reader.phase = "new"
    /\ Returns("Open", Open(storage_file, disk, OutputFile, FALSE), NoArgument)
    /\ reader' = [reader EXCEPT !.phase = "write"]
    /\ UNCHANGED <<accepted, writers>>

\* An event gets its own UUID when it is made.
TagAddEvent ==
    /\ reader.phase = "write"
    /\ RoomLeft
    /\ \E input \in EventInputs :
         LET event == [input EXCEPT !.uuid = reader.events + 1]
         IN  Returns("AddEvent", AddEvent(storage_file, disk, event), event)
    /\ reader' = [reader EXCEPT !.events = @ + 1]
    /\ UNCHANGED <<accepted, writers>>

TagAddEventTag ==
    /\ reader.phase = "write"
    /\ RoomLeft
    /\ \E event_tag \in NumericEventTagInputs \cup UuidEventTagInputs :
         /\ StringKey(event_tag) \notin DOMAIN reader.tagged
         /\ Returns("AddEventTag", AddEventTag(storage_file, disk, event_tag),
                    event_tag)
         /\ reader' = [reader EXCEPT
                         !.tagged = (StringKey(event_tag) :> event_tag) @@ @]
    /\ UNCHANGED <<accepted, writers>>

TagAddEventTags ==
    /\ reader.phase = "write"
    /\ RoomLeft
    /\ \E event_tag \in NumericEventTagInputs \cup UuidEventTagInputs :
         /\ StringKey(event_tag) \notin DOMAIN reader.tagged
         /\ Returns("AddEventTags",
                    AddEventTags(storage_file, disk, <<event_tag>>), event_tag)
         /\ reader' = [reader EXCEPT
                         !.tagged = (StringKey(event_tag) :> event_tag) @@ @]
    /\ UNCHANGED <<accepted, writers>>

TagFlush ==
    /\ reader.phase = "write"
    /\ BufferedCount(storage_file) > 0
    /\ Returns("Flush", Flush(storage_file, disk), NoArgument)
    /\ UNCHANGED <<accepted, reader, writers>>

TagClose ==
    /\ reader.phase = "write"
    /\ Returns("Close", Close(storage_file, disk), NoArgument)
    /\ reader' = [reader EXCEPT !.phase = "closed"]
    /\ UNCHANGED <<accepted, writers>>

TagOpen ==
    /\ reader.phase = "closed"
    /\ Returns("Open",
               Open(ZIPStorageFile_init(MaximumBufferSize, STORAGE_TYPE_SESSION),
                    disk, OutputFile, TRUE),
               NoArgument)
    /\ reader' = [reader EXCEPT !.phase = "reading"]
    /\ UNCHANGED <<accepted, writers>>

\* One tag lookup on the freshly opened container.
TagLookup ==
    /\ reader.phase = "reading"
    /\ reader.yielded = <<>>
    /\ \E identifier \in LookupIdentifiers :
         LET r == ReadEventTagByIdentifier(storage_file, disk, identifier[1],
                                           identifier[2], identifier[3])
         IN  /\ storage_file' = r.sf
             /\ result' = [op |-> "_ReadEventTagByIdentifier",
                           raised |-> r.raised, argument |-> NoArgument,
                           buffered |-> 0]
             /\ reader' = [reader EXCEPT
                             !.phase = "looked",
                             !.lookup = <<[store_number |-> identifier[1],
                                           store_index |-> identifier[2],
                                           uuid |-> identifier[3],
                                           tag |-> r.tag]>>]
    /\ UNCHANGED <<disk, accepted, writers>>

\* One iteration of the GetEvents generator; an exception ends it.
TagGetEvents ==
    /\ reader.phase = "reading"
    /\ \E r \in GetSortedEvent(storage_file, disk, NoTimeRange) :
         /\ storage_file' = r.sf
         /\ result' = [op |-> "GetEvents", raised |-> r.raised,
                       argument |-> NoArgument, buffered |-> 0]
         /\ reader' =
              IF r.event # <<>>
              THEN [reader EXCEPT !.yielded = Append(@, r.event[1])]
              ELSE [reader EXCEPT !.phase = "drained"]
    /\ UNCHANGED <<disk, accepted, writers>>

NextTag ==
    \/ TagOpenForWrite
    \/ TagAddEvent
    \/ TagAddEventTag
    \/ TagAddEventTags
    \/ TagFlush
    \/ TagClose
    \/ TagOpen
    \/ TagLookup
    \/ TagGetEvents

SpecTag == InitTag /\ [][NextTag]_vars

\* The tag that was added for the event with this identifier, looked up by
\* the numeric identifier first and by the UUID second; None if there is none.
ExpectedTag(store_number, store_index, uuid) ==
    LET numeric == <<"numeric", store_number, store_index>>
        by_uuid == <<"uuid", uuid, 0>>
    IN  IF numeric \in DOMAIN reader.tagged THEN <<reader.tagged[numeric]>>
        ELSE IF by_uuid \in DOMAIN reader.tagged THEN <<reader.tagged[by_uuid]>>
        ELSE <<>>

\* C9: after reopening, the tag lookup for an event identifier returns
\* exactly the tag that was added for that event and None for an event that
\* was never tagged, and GetEvents attaches that same tag to the event.
C9_TagLookup ==
    /\ result.op \in {"_ReadEventTagByIdentifier", "GetEvents"} =>
         ~ result.raised
    /\ reader.lookup # <<>> =>
         reader.lookup[1].tag
           = ExpectedTag(reader.lookup[1].store_number,
                         reader.lookup[1].store_index, reader.lookup[1].uuid)
    /\ \A i \in 1..Len(reader.yielded) :
         reader.yielded[i].tag
           = ExpectedTag(reader.yielded[i].store_number,
                         reader.yielded[i].store_index, reader.yielded[i].uuid)

\* The lookup for event (1, 0) returned the tag that was added for event
\* (2, 0).
C9_Witness ==
    /\ reader.phase = "looked"
    /\ ~ result.raised
    /\ reader.lookup[1].store_number = 1
    /\ reader.lookup[1].store_index = 0
    /\ <<"numeric", 1, 0>> \in DOMAIN reader.tagged
    /\ reader.lookup[1].tag # <<>>
    /\ reader.lookup[1].tag[1].store_number = 2

----------------------------------------------------------------------------
(* A further GetEvents on the open container (specification SpecRead). *)

\* C25: a further GetEvents call on the open container whose GetEvents was
\* drained, with any time range or none, yields no event.
C25_DrainedOnce == reader.again = <<>>

\* GetEvents with the time range 1..1 was drained, and a further GetEvents()
\* on the same open container has yielded an event with timestamp 3.
C25_Witness ==
    /\ reader.phase = "again"
    /\ reader.time_range # NoTimeRange
    /\ reader.time_range[1].end_timestamp = 1
    /\ reader.again_range = NoTimeRange
    /\ reader.again # <<>>
    /\ reader.again[1].timestamp = 3
    /\ storage_file.is_open

\* After GetEvents() without a time range was drained, a further GetEvents
\* yields no event.
DrainedOnceWithoutTimeRange ==
    reader.time_range = NoTimeRange => reader.again = <<>>

----------------------------------------------------------------------------
(* Specification SpecMerge: a session writer, the storage writers of its   *)
(* tasks and the merge of finished task storages into the session.  Here   *)
(* accepted holds, per task, the records the writer of the task accepted,  *)
(* and reader the tasks whose writer has been opened.  A task writer is    *)
(* created and opened once: a task storage is finished when it is handed   *)
(* over.                                                                   *)

TaskNames == {"t1", "t2"}
SessionWriter == "session"

TaskWriters == (DOMAIN writers) \ {SessionWriter}

InitMerge ==
    /\ storage_file = ZIPStorageFile_init(MaximumBufferSize,
                                          STORAGE_TYPE_SESSION)
    /\ disk = <<>>
    /\ result = [op |-> "__init__", raised |-> FALSE, argument |-> NoArgument,
                 value |-> None]
    /\ accepted = [t \in TaskNames |-> NoAccepted]
    /\ reader = [phase |-> "merge", opened |-> {}]
    /\ writers = (SessionWriter :>
                     ZIPStorageFileWriter_init(OutputFile, MaximumBufferSize,
                                               STORAGE_TYPE_SESSION))

\* The step of a call on a writer.
WriterReturns(name, op, r, argument) ==
    /\ writers' = [writers EXCEPT ![name] = r.w]
    /\ disk' = r.disk
    /\ result' = [op |-> op, raised |-> r.raised, argument |-> argument,
                  value |-> r.value]

TaskAccepts(task_name, kind, r, container) ==
    accepted' = IF r.raised THEN accepted
                ELSE [accepted EXCEPT ![task_name][kind] =
                         @ (+) SetToBag({WriteSerialized(container)})]

RECURSIVE CountTaskAccepted(_)
CountTaskAccepted(task_names) ==
    IF task_names = {} THEN 0
    ELSE LET t == CHOOSE x \in task_names : TRUE
         IN  BagCardinality(accepted[t]["event"])
               + BagCardinality(accepted[t]["event_source"])
               + BagCardinality(accepted[t]["error"])
               + BagCardinality(accepted[t]["event_tag"])
               + BagCardinality(accepted[t]["analysis_report"])
               + CountTaskAccepted(task_names \ {t})

\* The model stops adding once the task writers have accepted
\* MaxTaskRecords records.
TaskRoomLeft == CountTaskAccepted(TaskNames) < MaxTaskRecords

SessionOpen ==
    /\ WriterReturns(SessionWriter, "Open",
                     Writer_Open(writers[SessionWriter], disk), NoArgument)
    /\ UNCHANGED <<storage_file, accepted, reader>>

SessionClose ==
    /\ WriterReturns(SessionWriter, "Close",
                     Writer_Close(writers[SessionWriter], disk), NoArgument)
    /\ UNCHANGED <<storage_file, accepted, reader>>

SessionStartTaskStorage ==
    /\ WriterReturns(SessionWriter, "StartTaskStorage",
                     StartTaskStorage(writers[SessionWriter], disk),
                     NoArgument)
    /\ UNCHANGED <<storage_file, accepted, reader>>

SessionCreateTaskStorage ==
    /\ \E task_name \in TaskNames \ DOMAIN writers :
         LET r == CreateTaskStorage(writers[SessionWriter], disk, task_name)
         IN  /\ writers' = IF r.raised THEN writers
                           ELSE (task_name :> r.value) @@ writers
             /\ result' = [op |-> "CreateTaskStorage", raised |-> r.raised,
                           argument |-> task_name, value |-> None]
    /\ UNCHANGED <<storage_file, disk, accepted, reader>>

SessionPrepareMergeTaskStorage ==
    /\ \E task_name \in TaskNames :
         WriterReturns(SessionWriter, "PrepareMergeTaskStorage",
                       PrepareMergeTaskStorage(writers[SessionWriter], disk,
                                               task_name),
                       task_name)
    /\ UNCHANGED <<storage_file, accepted, reader>>

SessionCheckTaskStorageReadyForMerge ==
    /\ \E task_name \in TaskNames :
         WriterReturns(SessionWriter, "CheckTaskStorageReadyForMerge",
                       CheckTaskStorageReadyForMerge(writers[SessionWriter],
                                                     disk, task_name),
                       task_name)
    /\ UNCHANGED <<storage_file, accepted, reader>>

SessionMergeTaskStorage ==
    /\ \E task_name \in TaskNames :
         \E r \in MergeTaskStorage(writers[SessionWriter], disk, task_name) :
            WriterReturns(SessionWriter, "MergeTaskStorage", r, task_name)
    /\ UNCHANGED <<storage_file, accepted, reader>>

TaskOpen ==
    /\ \E task_name \in TaskWriters \ reader.opened :
         /\ WriterReturns(task_name, "Open",
                          Writer_Open(writers[task_name], disk), task_name)
         /\ reader' = [reader EXCEPT !.opened = @ \cup {task_name}]
    /\ UNCHANGED <<storage_file, accepted>>

TaskAddEvent ==
    /\ TaskRoomLeft
    /\ \E task_name \in TaskWriters, event \in EventInputs :
         LET r == Writer_AddEvent(writers[task_name], disk, event)
         IN  /\ WriterReturns(task_name, "AddEvent", r, event)
             /\ TaskAccepts(task_name, "event", r, event)
    /\ UNCHANGED <<storage_file, reader>>

TaskAddEventSource ==
    /\ TaskRoomLeft
    /\ \E task_name \in TaskWriters,
          event_source \in OtherInputs("event_source") :
         LET r == Writer_AddEventSource(writers[task_name], disk,
                                        event_source)
         IN  /\ WriterReturns(task_name, "AddEventSource", r, event_source)
             /\ TaskAccepts(task_name, "event_source", r, event_source)
    /\ UNCHANGED <<storage_file, reader>>

TaskAddError ==
    /\ TaskRoomLeft
    /\ \E task_name \in TaskWriters, error \in OtherInputs("error") :
         LET r == Writer_AddError(writers[task_name], disk, error)
         IN  /\ WriterReturns(task_name, "AddError", r, error)
             /\ TaskAccepts(task_name, "error", r, error)
    /\ UNCHANGED <<storage_file, reader>>

TaskAddEventTag ==
    /\ TaskRoomLeft
    /\ \E task_name \in TaskWriters, event_tag \in EventTagInputs :
         LET r == Writer_AddEventTag(writers[task_name], disk, event_tag)
         IN  /\ WriterReturns(task_name, "AddEventTag", r, event_tag)
             /\ TaskAccepts(task_name, "event_tag", r, event_tag)
    /\ UNCHANGED <<storage_file, reader>>

TaskAddAnalysisReport ==
    /\ TaskRoomLeft
    /\ \E task_name \in TaskWriters,
          analysis_report \in OtherInputs("analysis_report") :
         LET r == Writer_AddAnalysisReport(writers[task_name], disk,
                                           analysis_report)
         IN  /\ WriterReturns(task_name, "AddAnalysisReport", r,
                              analysis_report)
             /\ TaskAccepts(task_name, "analysis_report", r, analysis_report)
    /\ UNCHANGED <<storage_file, reader>>

TaskClose ==
    /\ \E task_name \in TaskWriters :
         WriterReturns(task_name, "Close",
                       Writer_Close(writers[task_name], disk), task_name)
    /\ UNCHANGED <<storage_file, accepted, reader>>

NextMerge ==
    \/ SessionOpen
    \/ SessionClose
    \/ SessionStartTaskStorage
    \/ SessionCreateTaskStorage
    \/ SessionPrepareMergeTaskStorage
    \/ SessionCheckTaskStorageReadyForMerge
    \/ SessionMergeTaskStorage
    \/ TaskOpen
    \/ TaskAddEvent
    \/ TaskAddEventSource
    \/ TaskAddError
    \/ TaskAddEventTag
    \/ TaskAddAnalysisReport
    \/ TaskClose

SpecMerge == InitMerge /\ [][NextMerge]_vars

----------------------------------------------------------------------------
(* Properties of the merge (specification SpecMerge). *)

\* The serialized records of one kind the session container holds: those
\* of the streams of its file and those of its write buffers.
SessionHeld(kind) ==
    LET paths == {OutputFile, TempPath(OutputFile)} \cap DOMAIN disk
        w == writers[SessionWriter]
        stored == IF paths = {} THEN <<>>
                  ELSE AllEntries(disk[CHOOSE p \in paths : TRUE],
                                  DataStreamOf(kind))
        buffered == IF w.storage_file = <<>> \/ kind \notin BufferKinds
                    THEN <<>>
                    ELSE Buffered(w.storage_file[1], kind)
    IN  SeqToBag(stored) (+) SeqToBag(buffered)

MergeReturnedTrue ==
    /\ result.op = "MergeTaskStorage"
    /\ ~ result.raised
    /\ result.value

TaskFileGone(task_name) ==
    LET w == writers[SessionWriter]
    IN  /\ ~ FileExists(disk, JoinPath(w.task_storage_path,
                                       TaskFileName(task_name)))
        /\ ~ FileExists(disk, JoinPath(w.merge_task_storage_path,
                                       TaskFileName(task_name)))
        /\ ~ CheckTaskStorageReadyForMerge(w, disk, task_name).value

\* C2: in every state reached by a MergeTaskStorage(t) that returned True,
\* every error, event, event source, event tag and analysis report the
\* writer of task t accepted is held by the session container, the file of
\* the task is gone and CheckTaskStorageReadyForMerge(t) is false.
C2_MergeTaskStorage ==
    MergeReturnedTrue =>
        /\ \A kind \in RecordKinds :
              accepted[result.argument][kind] \sqsubseteq SessionHeld(kind)
        /\ TaskFileGone(result.argument)

\* MergeTaskStorage returned True for a task whose writer accepted an event
\* tag: the tag is in the list of the session writer and in no stream and
\* no buffer of the session container.
C2_Witness ==
    /\ MergeReturnedTrue
    /\ accepted[result.argument]["event_tag"] # EmptyBag
    /\ SessionHeld("event_tag") = EmptyBag
    /\ TaskFileGone(result.argument)

\* The same statement without the event tags.
MergeKeepsOtherRecords ==
    MergeReturnedTrue =>
        /\ \A kind \in RecordKinds \ {"event_tag"} :
              accepted[result.argument][kind] \sqsubseteq SessionHeld(kind)
        /\ TaskFileGone(result.argument)

----------------------------------------------------------------------------
(* Isolation of the task storages (specification SpecMerge). *)

\* The places of the file of a task: written, closed, handed over.
TaskFilePaths(task_name) ==
    LET w == writers[SessionWriter]
        storage_file_path ==
            JoinPath(w.task_storage_path, TaskFileName(task_name))
    IN  {storage_file_path, TempPath(storage_file_path),
         JoinPath(w.merge_task_storage_path, TaskFileName(task_name))}

TaskFileExists(task_name) == TaskFilePaths(task_name) \cap DOMAIN disk # {}

\* The serialized records of one kind the container of a task holds: those
\* of the streams of its file and those of its write buffers.
TaskHeld(task_name, kind) ==
    LET paths == TaskFilePaths(task_name) \cap DOMAIN disk
        w == writers[task_name]
        stored == IF paths = {} THEN <<>>
                  ELSE AllEntries(disk[CHOOSE p \in paths : TRUE],
                                  DataStreamOf(kind))
        buffered == IF w.storage_file = <<>> \/ kind \notin BufferKinds
                    THEN <<>>
                    ELSE Buffered(w.storage_file[1], kind)
    IN  SeqToBag(stored) (+) SeqToBag(buffered)

\* Two task writers have different files, and different ZIP files in
\* different temporary directories while they are open.
DistinctTaskFiles ==
    \A t1 \in TaskWriters : \A t2 \in TaskWriters \ {t1} :
        /\ writers[t1].output_file # writers[t2].output_file
        /\ (writers[t1].storage_file # <<>> /\ writers[t2].storage_file # <<>>)
             => LET p1 == writers[t1].storage_file[1].zipfile_path
                    p2 == writers[t2].storage_file[1].zipfile_path
                IN  p1 # p2 /\ DirName(p1) # DirName(p2)

\* The container of every task holds the records of the kinds its writer
\* accepted, and no others.
TaskHoldsOwn(kinds) ==
    \A t \in TaskWriters :
        TaskFileExists(t) =>
            \A kind \in kinds : TaskHeld(t, kind) = accepted[t][kind]

SessionContents == [kind \in RecordKinds |-> SessionHeld(kind)]

\* A step that changes what the session container holds is a
\* MergeTaskStorage (the session writer of SpecMerge adds nothing itself).
SessionChangesByMerge ==
    SessionContents' # SessionContents => result'.op = "MergeTaskStorage"

\* C15: the files and temporary directories of two tasks differ, under
\* every interleaving the container of each task holds exactly the records
\* its own writer accepted, and the contents of the session container
\* change only in MergeTaskStorage.
C15_TaskIsolation ==
    /\ [](DistinctTaskFiles /\ TaskHoldsOwn(RecordKinds))
    /\ [][SessionChangesByMerge]_vars

\* Two tasks have each written a record and closed their own file, and
\* the event tag the writer of t1 accepted is not in the container of t1.
C15_Witness ==
    /\ TaskWriters = TaskNames
    /\ writers["t1"].storage_file = <<>> /\ writers["t2"].storage_file = <<>>
    /\ TaskFileExists("t1") /\ TaskFileExists("t2")
    /\ accepted["t1"]["event_tag"] # EmptyBag
    /\ TaskHeld("t1", "event_tag") = EmptyBag
    /\ accepted["t2"]["event"] # EmptyBag
    /\ TaskHeld("t2", "event") = accepted["t2"]["event"]

\* The same statement without the event tags.
TaskIsolationOfOtherRecords ==
    /\ [](DistinctTaskFiles /\ TaskHoldsOwn(RecordKinds \ {"event_tag"}))
    /\ [][SessionChangesByMerge]_vars

----------------------------------------------------------------------------
(* The merge-ready state of a task (specification SpecMerge). *)

\* The file of the task exists in the merge directory.
InMergeDirectory(task_name) ==
    FileExists(disk, JoinPath(writers[SessionWriter].merge_task_storage_path,
                              TaskFileName(task_name)))

Returned(op, task_name) ==
    result.op = op /\ result.argument = task_name /\ ~ result.raised

\* CheckTaskStorageReadyForMerge returns whether the file is there.
CheckTellsInMergeDirectory ==
    \A t \in TaskNames :
        Returned("CheckTaskStorageReadyForMerge", t)
            => result.value = InMergeDirectory(t)

\* The file comes into the merge directory in PrepareMergeTaskStorage(t)
\* and leaves it in a MergeTaskStorage(t) that returns True;
\* MergeTaskStorage(t) returns whether the file was there.
MergeReadyStep ==
    \A t \in TaskNames :
        /\ (~ InMergeDirectory(t) /\ InMergeDirectory(t)')
             => Returned("PrepareMergeTaskStorage", t)'
        /\ Returned("PrepareMergeTaskStorage", t)' => InMergeDirectory(t)'
        /\ (InMergeDirectory(t) /\ ~ InMergeDirectory(t)')
             => Returned("MergeTaskStorage", t)' /\ result'.value = TRUE
        /\ Returned("MergeTaskStorage", t)'
             => /\ result'.value = InMergeDirectory(t)
                /\ ~ InMergeDirectory(t)'

\* C16: CheckTaskStorageReadyForMerge(t) returns true exactly when the file
\* of t is in the merge directory; the file is there from the return of
\* PrepareMergeTaskStorage(t) until the return of MergeTaskStorage(t) and
\* not before or afterwards; MergeTaskStorage(t) returns True exactly when
\* the file was there.
C16_ReadyForMerge ==
    /\ []CheckTellsInMergeDirectory
    /\ [][MergeReadyStep]_vars

\* CheckTaskStorageReadyForMerge returned True for a task with a stored
\* event while the file of the other task is still being written.
C16_Witness ==
    /\ Returned("CheckTaskStorageReadyForMerge", "t1")
    /\ result.value = TRUE
    /\ accepted["t1"]["event"] # EmptyBag
    /\ "t2" \in TaskWriters
    /\ writers["t2"].storage_file # <<>>
    /\ ~ InMergeDirectory("t2")

----------------------------------------------------------------------------
(* Properties of the committed streams (specification Spec). *)

\* The kinds of record whose data streams have an offset table that readers
\* use.
OffsetTableKinds == {"event", "event_source"}

\* The entry read after seeking a newly opened data stream to an offset.
ReadEntryAtOffset(entries, entry_index, stream_offset) ==
    ReadEntry(entries,
              SeekEntryAtOffset(entries, SerializedDataStream_init,
                                entry_index, stream_offset))

\* C11: in every reachable state, every committed event and event source
\* data stream has an offset table of the same number with exactly one
\* entry per record, and reading the data stream at entry i of the table
\* yields record i.
C11_OffsetTableAddressesRecords ==
    \A p \in StorageFiles(disk) : \A kind \in OffsetTableKinds :
        \A n \in DOMAIN disk[p][DataStreamOf(kind)] :
            LET entries == disk[p][DataStreamOf(kind)][n]
            IN  /\ HasStream(disk[p], IndexStreamOf(kind), n)
                /\ Len(disk[p][IndexStreamOf(kind)][n]) = Len(entries)
                /\ \A i \in 1..Len(entries) :
                      LET read == ReadEntryAtOffset(
                                      entries, i - 1,
                                      disk[p][IndexStreamOf(kind)][n][i])
                      IN  ~ read.raised /\ read.data = <<entries[i]>>

\* A committed event source stream of two records whose table holds the
\* offsets 0 and the size of the first entry.
C11_Witness ==
    \E p \in StorageFiles(disk) :
      \E n \in DOMAIN disk[p]["event_source_data"] :
        /\ Len(disk[p]["event_source_data"][n]) = 2
        /\ disk[p]["event_source_index"][n]
             = <<0, EntrySize(disk[p]["event_source_data"][n][1])>>

----------------------------------------------------------------------------
(* Properties of the session and task markers (specification Spec). *)

MarkerKinds ==
    {"session_start", "session_completion", "task_start", "task_completion"}

\* The marker an operation writes.
MarkerOf(op) ==
    CASE op = "WriteSessionStart" -> "session_start"
      [] op = "WriteSessionCompletion" -> "session_completion"
      [] op = "WriteTaskStart" -> "task_start"
      [] op = "WriteTaskCompletion" -> "task_completion"

MarkerOperations ==
    {"WriteSessionStart", "WriteSessionCompletion", "WriteTaskStart",
     "WriteTaskCompletion"}

\* The storage type of the containers that take the marker, and the number
\* of the stream the marker is written to.
MarkerStorageType(kind) ==
    IF kind \in {"session_start", "session_completion"}
    THEN STORAGE_TYPE_SESSION ELSE STORAGE_TYPE_TASK

MarkerNumber(sf, kind) ==
    IF kind \in {"session_start", "session_completion"}
    THEN sf.last_session ELSE sf.last_task

\* The marker streams of the file of the container.
MarkerStreams(sf, d) == [kind \in MarkerKinds |-> d[sf.zipfile_path][kind]]

\* A step of a marker operation on a container open for writing.
MarkerStep(op) == result'.op = op /\ OpenForWrite(storage_file)

\* The marker is of the other storage type: the operation raises and the
\* marker streams are as before.
MarkerRejected(op) ==
    (MarkerStep(op)
       /\ storage_file.storage_type # MarkerStorageType(MarkerOf(op)))
      => /\ result'.raised
         /\ MarkerStreams(storage_file', disk')
              = MarkerStreams(storage_file, disk)

\* The marker is of the storage type of the container and its stream does
\* not exist: the operation returns and the stream holds the marker.
MarkerAccepted(op) ==
    LET kind == MarkerOf(op)
        n == MarkerNumber(storage_file, kind)
    IN  (MarkerStep(op)
           /\ storage_file.storage_type = MarkerStorageType(kind)
           /\ ~ HasStream(Zip(storage_file, disk), kind, n))
          => /\ ~ result'.raised
             /\ HasStream(Zip(storage_file', disk'), kind, n)
             /\ Zip(storage_file', disk')[kind][n]
                  = <<WriteSerialized(result'.argument)>>

DuplicateMarkerStep(op) ==
    /\ MarkerStep(op)
    /\ HasStream(Zip(storage_file, disk), MarkerOf(op),
                 MarkerNumber(storage_file, MarkerOf(op)))

\* The marker streams a file holds are in the file after the step, with
\* the same content: a marker is only ever written to a new stream.
MarkerStreamsKept ==
    \A p \in StorageFiles(disk) : \A q \in StorageFiles(disk') :
        \A kind \in MarkerKinds : \A n \in DOMAIN disk[p][kind] :
            /\ n \in DOMAIN disk'[q][kind]
            /\ disk'[q][kind][n] = disk[p][kind][n]

\* C20: a marker operation whose numbered marker stream exists raises and
\* writes nothing, so that a second start or completion marker of the same
\* number raises, and no marker stream is ever written a second time.
C20_DuplicateMarkerRaises ==
    [][/\ \A op \in MarkerOperations :
             DuplicateMarkerStep(op) => result'.raised /\ disk' = disk
       /\ MarkerStreamsKept]_vars

\* A second WriteTaskCompletion has raised on a task container that had a
\* record buffered, and the record is no longer buffered.
C20_Witness ==
    /\ result.op = "WriteTaskCompletion"
    /\ result.raised
    /\ OpenForWrite(storage_file)
    /\ storage_file.storage_type = STORAGE_TYPE_TASK
    /\ HasStream(Zip(storage_file, disk), "task_completion",
                 storage_file.last_task)
    /\ result.buffered > 0
    /\ BufferedCount(storage_file) = 0

\* The same statement for the marker streams alone: the operation raises
\* and no marker stream is written.
DuplicateMarkerNotWritten ==
    [][/\ \A op \in MarkerOperations :
             DuplicateMarkerStep(op)
               => /\ result'.raised
                  /\ MarkerStreams(storage_file', disk')
                       = MarkerStreams(storage_file, disk)
       /\ MarkerStreamsKept]_vars

\* A second WriteSessionStart has raised before the session was completed.
SecondSessionStartRaised ==
    /\ result.op = "WriteSessionStart"
    /\ result.raised
    /\ OpenForWrite(storage_file)
    /\ storage_file.storage_type = STORAGE_TYPE_SESSION
    /\ HasStream(Zip(storage_file, disk), "session_start",
                 storage_file.last_session)

----------------------------------------------------------------------------
(* Specification SpecAbort: a session storage file written by a process   *)
(* whose writes of serialized data streams can fail with IOError.          *)

\* The buffers hold two records before an Add* flushes them.
AbortBufferSize == MaximumBufferSize + 1

\* The working directory of the process: its own, or the temporary
\* directory of the storage file.
WorkingDirectories == {<<"home">>, DirName(TempPath(OutputFile))}

NoFault == <<>>

\* The write that failed: the kind and the number of the stream, the file
\* WriteInitialize created, and whether the flush was the one of Close.
Fault(sf, kind) ==
    <<[kind |-> kind,
       stream_number |-> StreamNumber(sf, kind),
       stream_file_path |-> StreamFilePath(sf.zipfile_path,
                                           DataStreamOf(kind),
                                           StreamNumber(sf, kind)),
       zipfile_path |-> sf.zipfile_path]>>

InitAbort ==
    /\ storage_file = ZIPStorageFile_init(AbortBufferSize, STORAGE_TYPE_SESSION)
    /\ disk = <<>>
    /\ result = [op |-> "__init__", raised |-> FALSE, argument |-> NoArgument,
                 buffered |-> 0]
    /\ accepted = NoAccepted
    /\ reader = [phase |-> "new", fault |-> NoFault]
    /\ writers = NoWriters

AbortOpen ==
    /\ reader.phase = "new"
    /\ Returns("Open", Open(storage_file, disk, OutputFile, FALSE), NoArgument)
    /\ reader' = [phase |-> "write", fault |-> NoFault]
    /\ UNCHANGED <<accepted, writers>>

AbortAddEvent ==
    /\ RoomLeft
    /\ \E event \in EventInputs :
         LET r == AddEvent(storage_file, disk, event)
         IN  /\ Returns("AddEvent", r, event)
             /\ Accepts("event", r, event)
    /\ reader' = [reader EXCEPT !.fault = NoFault]
    /\ UNCHANGED writers

AbortAddEventSource ==
    /\ RoomLeft
    /\ \E event_source \in OtherInputs("event_source") :
         LET r == AddEventSource(storage_file, disk, event_source)
         IN  /\ Returns("AddEventSource", r, event_source)
             /\ Accepts("event_source", r, event_source)
    /\ reader' = [reader EXCEPT !.fault = NoFault]
    /\ UNCHANGED writers

AbortAddError ==
    /\ RoomLeft
    /\ \E error \in OtherInputs("error") :
         LET r == AddError(storage_file, disk, error)
         IN  /\ Returns("AddError", r, error)
             /\ Accepts("error", r, error)
    /\ reader' = [reader EXCEPT !.fault = NoFault]
    /\ UNCHANGED writers

AbortAddEventTag ==
    /\ RoomLeft
    /\ \E event_tag \in EventTagInputs :
         LET r == AddEventTag(storage_file, disk, event_tag)
         IN  /\ Returns("AddEventTag", r, event_tag)
             /\ Accepts("event_tag", r, event_tag)
    /\ reader' = [reader EXCEPT !.fault = NoFault]
    /\ UNCHANGED writers

AbortFlush ==
    /\ reader.phase = "write"
    /\ Returns("Flush", Flush(storage_file, disk), NoArgument)
    /\ reader' = [reader EXCEPT !.fault = NoFault]
    /\ UNCHANGED <<accepted, writers>>

\* Flush in which the write of entry failing of the stream of kind fails.
AbortFlushFails ==
    /\ storage_file.is_open
    /\ \E kind \in BufferKinds :
         /\ BufferSize(storage_file, kind) > 0
         /\ \E failing \in 1..Len(Buffered(storage_file, kind)) :
              \E current_working_directory \in WorkingDirectories :
                 Returns("Flush",
                         FlushAborted(storage_file, disk,
                                      current_working_directory, kind,
                                      failing),
                         NoArgument)
         /\ reader' = [reader EXCEPT !.fault = Fault(storage_file, kind)]
    /\ UNCHANGED <<accepted, writers>>

AbortClose ==
    /\ reader.phase = "write"
    /\ Returns("Close", Close(storage_file, disk), NoArgument)
    /\ reader' = [reader EXCEPT !.fault = NoFault]
    /\ UNCHANGED <<accepted, writers>>

\* Close in whose flush the write of entry failing of the stream of kind
\* fails.
AbortCloseFails ==
    /\ storage_file.is_open
    /\ \E kind \in BufferKinds :
         /\ BufferSize(storage_file, kind) > 0
         /\ \E failing \in 1..Len(Buffered(storage_file, kind)) :
              \E current_working_directory \in WorkingDirectories :
                 Returns("Close",
                         CloseAborted(storage_file, disk,
                                      current_working_directory, kind,
                                      failing),
                         NoArgument)
         /\ reader' = [reader EXCEPT !.fault = Fault(storage_file, kind)]
    /\ UNCHANGED <<accepted, writers>>

NextAbort ==
    \/ AbortOpen
    \/ AbortAddEvent
    \/ AbortAddEventSource
    \/ AbortAddError
    \/ AbortAddEventTag
    \/ AbortFlush
    \/ AbortFlushFails
    \/ AbortClose
    \/ AbortCloseFails

SpecAbort == InitAbort /\ [][NextAbort]_vars

----------------------------------------------------------------------------
(* Properties of failing writes (specification SpecAbort). *)

\* After a failed write no stream of the number being written is in the
\* ZIP file and the stream number of the kind is the one being written.
AbortedStreamNotCommitted ==
    \A i \in DOMAIN reader.fault :
       LET fault == reader.fault[i]
       IN  /\ result.raised
           /\ ~ HasStream(disk[fault.zipfile_path], DataStreamOf(fault.kind),
                          fault.stream_number)
           /\ StreamNumber(storage_file, fault.kind) = fault.stream_number

\* C13: after a flush in which the write of an entry failed, the temporary
\* file of the stream is deleted, no data stream of the number being
\* written is committed and the stream number is not incremented.
C13_AbortedWriteLeavesNothing ==
    \A i \in DOMAIN reader.fault :
       LET fault == reader.fault[i]
       IN  /\ ~ FileExists(disk, fault.stream_file_path)
           /\ ~ HasStream(disk[fault.zipfile_path], DataStreamOf(fault.kind),
                          fault.stream_number)
           /\ StreamNumber(storage_file, fault.kind) = fault.stream_number

\* A flush failed at the second event source and the temporary file with
\* the first is still in the directory of the storage file.
C13_Witness ==
    /\ reader.fault # NoFault
    /\ result.op = "Flush"
    /\ reader.fault[1].kind = "event_source"
    /\ FileExists(disk, reader.fault[1].stream_file_path)
    /\ Len(disk[reader.fault[1].stream_file_path].entries) = 1

\* C14: after Close was called the file handle is released and the
\* container is closed, also when the flush inside Close raised.
C14_CloseReleases ==
    result.op = "Close" => ~ storage_file.is_open /\ ~ storage_file.zipfile

\* Close was called on an open container, a write of its flush failed, and
\* the container is still open with its ZIP file.
C14_Witness ==
    /\ result.op = "Close"
    /\ result.raised
    /\ reader.fault # NoFault
    /\ reader.fault[1].kind = "error"
    /\ storage_file.is_open
    /\ storage_file.zipfile

\* Close without a failing write leaves the container closed.
CloseWithoutFaultReleases ==
    (result.op = "Close" /\ reader.fault = NoFault)
        => ~ storage_file.is_open /\ ~ storage_file.zipfile

----------------------------------------------------------------------------
(* Specification SpecOpen: a storage file some version of the program has  *)
(* written is opened, written to and closed.  reader holds the metadata    *)
(* of the file and the circumstances of the last Open.                     *)

\* None: a format version that is missing or not a number.
StoredFormatVersions == {None, 20160500, 20160501, 20160525, 20160526}
StoredSerializationFormats == {SERIALIZER_FORMAT_JSON, "proto"}
StoredStorageTypes == STORAGE_TYPES

StoredMetadata ==
    [format_version : StoredFormatVersions,
     serialization_format : StoredSerializationFormats,
     storage_type : StoredStorageTypes]

StoredFile(storage_metadata) ==
    [EmptyZip EXCEPT !["metadata"] = (0 :> storage_metadata)]

InitOpen ==
    /\ storage_file = ZIPStorageFile_init(MaximumBufferSize,
                                          STORAGE_TYPE_SESSION)
    /\ \E storage_metadata \in StoredMetadata :
         /\ disk = (OutputFile :> StoredFile(storage_metadata))
         /\ reader = [stored |-> storage_metadata, was_open |-> FALSE,
                      read_only |-> TRUE, failed |-> FALSE]
    /\ result = [op |-> "__init__", raised |-> FALSE, argument |-> NoArgument,
                 buffered |-> 0]
    /\ accepted = NoAccepted
    /\ writers = NoWriters

StoredOpen ==
    /\ \E read_only \in BOOLEAN :
         LET r == Open(storage_file, disk, OutputFile, read_only)
         IN  /\ Returns("Open", r, NoArgument)
             /\ reader' = [reader EXCEPT
                              !.was_open = storage_file.zipfile,
                              !.read_only = read_only,
                              !.failed = IF storage_file.zipfile THEN @
                                         ELSE r.raised]
    /\ UNCHANGED <<accepted, writers>>

StoredAddEvent ==
    /\ RoomLeft
    /\ \E event \in EventInputs :
         LET r == AddEvent(storage_file, disk, event)
         IN  /\ Returns("AddEvent", r, event)
             /\ Accepts("event", r, event)
    /\ UNCHANGED <<reader, writers>>

StoredAddEventSource ==
    /\ RoomLeft
    /\ \E event_source \in OtherInputs("event_source") :
         LET r == AddEventSource(storage_file, disk, event_source)
         IN  /\ Returns("AddEventSource", r, event_source)
             /\ Accepts("event_source", r, event_source)
    /\ UNCHANGED <<reader, writers>>

StoredAddError ==
    /\ RoomLeft
    /\ \E error \in OtherInputs("error") :
         LET r == AddError(storage_file, disk, error)
         IN  /\ Returns("AddError", r, error)
             /\ Accepts("error", r, error)
    /\ UNCHANGED <<reader, writers>>

StoredFlush ==
    /\ Returns("Flush", Flush(storage_file, disk), NoArgument)
    /\ UNCHANGED <<accepted, reader, writers>>

StoredClose ==
    /\ Returns("Close", Close(storage_file, disk), NoArgument)
    /\ UNCHANGED <<accepted, reader, writers>>

NextOpen ==
    \/ StoredOpen
    \/ StoredAddEvent
    \/ StoredAddEventSource
    \/ StoredAddError
    \/ StoredFlush
    \/ StoredClose

SpecOpen == InitOpen /\ [][NextOpen]_vars

----------------------------------------------------------------------------
(* Properties of Open (specification SpecOpen). *)

\* Open was called on a container that had no ZIP file open.
OpenedClosedContainer == result.op = "Open" /\ ~ reader.was_open

\* C17: Open of a file whose metadata declares a format version below
\* 20160501 or above 20160525 raises, and Open of a file that declares a
\* version from 20160501 to 20160525, JSON and a known storage type does
\* not.
C17_FormatVersionRange ==
    OpenedClosedContainer =>
        LET v == reader.stored.format_version
        IN  /\ (v # None /\ (v < 20160501 \/ v > 20160525)) => result.raised
            /\ (/\ v # None
                /\ v >= 20160501 /\ v <= 20160525
                /\ reader.stored.serialization_format = "json"
                /\ reader.stored.storage_type \in STORAGE_TYPES)
                 => ~ result.raised

\* A file that declares format version 20160501 has been opened for
\* writing.
C17_Witness ==
    /\ OpenedClosedContainer
    /\ reader.stored.format_version = 20160501
    /\ ~ reader.read_only
    /\ ~ result.raised
    /\ storage_file.format_version = 20160501

\* Open raised for the format version or the serialization format the
\* file declares.
UnsupportedStored ==
    \/ reader.stored.format_version = None
    \/ reader.stored.format_version < 20160501
    \/ reader.stored.format_version > 20160525
    \/ reader.stored.serialization_format # "json"

OpenFailedUnsupported ==
    OpenedClosedContainer /\ result.raised /\ UnsupportedStored

LaterOperations == {"AddEvent", "AddEventSource", "AddError", "Flush", "Close"}

\* C18: after Open failed for an unsupported format version or
\* serialization format the container is not open and holds no ZIP file
\* handle, a file that was being opened for writing is at its original
\* path, and Add*, Flush and Close called afterwards raise.
C18_FailedOpenLeavesClosed ==
    /\ [](OpenFailedUnsupported =>
            /\ ~ storage_file.is_open
            /\ ~ storage_file.zipfile
            /\ FileExists(disk, OutputFile))
    /\ [][(reader.failed /\ UnsupportedStored /\ reader'.failed
             /\ result'.op \in LaterOperations) => result'.raised]_vars

\* Open for writing of a file that declares format version 20160526 has
\* raised: the container is open and the file is in the temporary
\* directory.
C18_Witness ==
    /\ OpenFailedUnsupported
    /\ reader.stored.format_version = 20160526
    /\ ~ reader.read_only
    /\ storage_file.is_open
    /\ storage_file.zipfile
    /\ ~ FileExists(disk, OutputFile)
    /\ FileExists(disk, TempPath(OutputFile))

----------------------------------------------------------------------------
(* Specification SpecTask: the task storage of a session writer through    *)
(* StartTaskStorage and StopTaskStorage, with the storage writers of its   *)
(* tasks.  reader remembers the tasks whose writer has been opened and     *)
(* whether a StopTaskStorage has succeeded.  The task writers of a task    *)
(* storage that was stopped are not used again: they leave writers.        *)

ProtocolOperations ==
    {"StartTaskStorage", "StopTaskStorage", "CreateTaskStorage",
     "PrepareMergeTaskStorage", "CheckTaskStorageReadyForMerge",
     "MergeTaskStorage"}

\* Every outcome of a task storage operation of a writer.
ProtocolCall(op, w, d, task_name, abort) ==
    CASE op = "StartTaskStorage" -> {StartTaskStorage(w, d)}
      [] op = "StopTaskStorage" -> {StopTaskStorage(w, d, abort)}
      [] op = "CreateTaskStorage" -> {CreateTaskStorage(w, d, task_name)}
      [] op = "PrepareMergeTaskStorage" ->
           {PrepareMergeTaskStorage(w, d, task_name)}
      [] op = "CheckTaskStorageReadyForMerge" ->
           {CheckTaskStorageReadyForMerge(w, d, task_name)}
      [] op = "MergeTaskStorage" -> MergeTaskStorage(w, d, task_name)

InitTask ==
    /\ storage_file = ZIPStorageFile_init(MaximumBufferSize,
                                          STORAGE_TYPE_SESSION)
    /\ disk = <<>>
    /\ result = [op |-> "__init__", raised |-> FALSE, argument |-> NoArgument,
                 value |-> None]
    /\ accepted = [t \in TaskNames |-> NoAccepted]
    /\ reader = [phase |-> "task", opened |-> {}, stopped |-> FALSE]
    /\ writers = (SessionWriter :>
                     ZIPStorageFileWriter_init(OutputFile, MaximumBufferSize,
                                               STORAGE_TYPE_SESSION))

\* StopTaskStorage of the session writer.  result remembers the paths the
\* call removed.
SessionStopTaskStorage ==
    /\ \E abort \in BOOLEAN :
         LET r == StopTaskStorage(writers[SessionWriter], disk, abort)
         IN  /\ writers' = IF r.raised THEN writers
                           ELSE (SessionWriter :> r.w)
             /\ disk' = r.disk
             /\ result' = [op |-> "StopTaskStorage", raised |-> r.raised,
                           argument |-> abort,
                           value |-> (DOMAIN disk) \ (DOMAIN r.disk)]
             /\ reader' = IF r.raised THEN reader
                          ELSE [reader EXCEPT !.opened = {},
                                              !.stopped = TRUE]
    /\ UNCHANGED <<storage_file, accepted>>

\* A task storage operation called on the storage writer of a task.
TaskProtocolCall ==
    /\ \E t \in TaskWriters, op \in ProtocolOperations :
         \E abort \in IF op = "StopTaskStorage" THEN BOOLEAN ELSE {FALSE} :
            \E r \in ProtocolCall(op, writers[t], disk, t, abort) :
               /\ writers' = [writers EXCEPT ![t] = r.w]
               /\ disk' = r.disk
               /\ result' = [op |-> op, raised |-> r.raised,
                             argument |-> t, value |-> r.value,
                             writer |-> t]
    /\ UNCHANGED <<storage_file, accepted, reader>>

NextTask ==
    \/ SessionOpen
    \/ SessionStartTaskStorage
    \/ SessionStopTaskStorage
    \/ SessionCreateTaskStorage
    \/ SessionPrepareMergeTaskStorage
    \/ SessionCheckTaskStorageReadyForMerge
    \/ SessionMergeTaskStorage
    \/ TaskProtocolCall
    \/ TaskOpen
    \/ TaskClose

SpecTask == InitTask /\ [][NextTask]_vars

----------------------------------------------------------------------------
(* The Start/Stop state machine of the task storage (specification         *)
(* SpecTask).                                                              *)

TaskStorageStarted(w) == w.task_storage_path # NoPath

\* The step is the call of op on the session writer.
SessionCall(op) == result.op = op /\ "writer" \notin DOMAIN result

\* The step is a call on the storage writer of a task.
TaskWriterCall ==
    result.op \in ProtocolOperations /\ "writer" \in DOMAIN result

\* The two paths of the task storage are set and cleared together.
TaskStoragePathsTogether ==
    \A name \in DOMAIN writers :
        (writers[name].task_storage_path = NoPath)
            <=> (writers[name].merge_task_storage_path = NoPath)

TaskStorageStep ==
    LET w == writers[SessionWriter]
    IN  /\ SessionCall("StartTaskStorage")'
             => /\ result'.raised <=> TaskStorageStarted(w)
                /\ TaskStorageStarted(w')
        /\ \A op \in ProtocolOperations \ {"StartTaskStorage"} :
              (SessionCall(op)' /\ ~ TaskStorageStarted(w))
                  => (result'.raised /\ w' = w /\ disk' = disk)
        /\ (SessionCall("StopTaskStorage")' /\ ~ result'.raised)
             => /\ ~ TaskStorageStarted(w')
                /\ ~ StartTaskStorage(w', disk').raised
        /\ TaskWriterCall'
             => (result'.raised /\ writers' = writers /\ disk' = disk)

\* C21: StartTaskStorage of a session writer raises exactly when task
\* storage is started; CreateTaskStorage, PrepareMergeTaskStorage,
\* CheckTaskStorageReadyForMerge, MergeTaskStorage and StopTaskStorage
\* raise and change nothing when it is not started; after a StopTaskStorage
\* that returned task storage is not started and StartTaskStorage succeeds;
\* on the writer of a task every one of these operations raises.
C21_TaskStorageStateMachine ==
    /\ []TaskStoragePathsTogether
    /\ [][TaskStorageStep]_vars

\* StartTaskStorage succeeded after a StopTaskStorage had succeeded.
C21_Witness ==
    /\ SessionCall("StartTaskStorage")
    /\ ~ result.raised
    /\ reader.stopped
    /\ TaskStorageStarted(writers[SessionWriter])

----------------------------------------------------------------------------
(* StopTaskStorage and the files of the tasks (specification SpecTask). *)

\* The files, not the directories, in a directory or below it.
FilesInside(d, directory) ==
    {p \in DOMAIN d : Inside(p, directory) /\ ~ IsDirectory(d, p)}

\* The step is a StopTaskStorage of the session writer with task storage
\* started.
StopStep(abort) ==
    /\ SessionCall("StopTaskStorage")'
    /\ result'.argument = abort
    /\ TaskStorageStarted(writers[SessionWriter])

StopTaskStorageStep ==
    LET w == writers[SessionWriter]
        task_storage_path == w.task_storage_path
    IN  /\ StopStep(TRUE)
             => /\ ~ result'.raised
                /\ ~ TaskStorageStarted(writers'[SessionWriter])
                /\ disk' = RemoveTree(disk, task_storage_path)
                /\ ~ IsDirectory(disk', task_storage_path)
                /\ ~ IsDirectory(disk', w.merge_task_storage_path)
                /\ FilesInside(disk', task_storage_path) = {}
        /\ StopStep(FALSE)
             => /\ result'.raised
                  <=> FilesInside(disk, task_storage_path) # {}
                /\ \A p \in DOMAIN disk :
                      ~ IsDirectory(disk, p)
                          => (p \in DOMAIN disk' /\ disk'[p] = disk[p])
                /\ \A p \in (DOMAIN disk) \ (DOMAIN disk') :
                      FilesInside(disk, p) = {}
                /\ result'.raised => writers' = writers
                /\ ~ result'.raised
                     => /\ ~ TaskStorageStarted(writers'[SessionWriter])
                        /\ disk' = RemoveTree(disk, task_storage_path)

\* C22: StopTaskStorage(abort=True) removes the directory of the task
\* storage and its merge directory with every file in them and leaves task
\* storage stopped; StopTaskStorage(abort=False) removes a directory only
\* when no file is in it, raises when a file is in them and removes no
\* file.
C22_StopTaskStorage == [][StopTaskStorageStep]_vars

\* StopTaskStorage(abort=True) removed the file of a task that was ready
\* for merge and the file of a task that was still being written.
C22_Witness ==
    LET task_storage_path == MakeTempDirectory(DirName(OutputFile))
    IN  /\ SessionCall("StopTaskStorage")
        /\ result.argument = TRUE
        /\ ~ result.raised
        /\ \E t1 \in TaskNames : \E t2 \in TaskNames \ {t1} :
              /\ JoinPath(JoinPath(task_storage_path, "merge"),
                          TaskFileName(t1)) \in result.value
              /\ TempPath(JoinPath(task_storage_path, TaskFileName(t2)))
                   \in result.value
        /\ FilesInside(disk, task_storage_path) = {}

\* StopTaskStorage(abort=False) raised with the file of a task in the
\* directory of the task storage: the empty merge directory is removed,
\* the file is kept and task storage is still started.
StopRaisedWithTaskFile ==
    /\ SessionCall("StopTaskStorage")
    /\ result.argument = FALSE
    /\ result.raised
    /\ result.value # {}
    /\ TaskStorageStarted(writers[SessionWriter])
    /\ FilesInside(disk, writers[SessionWriter].task_storage_path) # {}

----------------------------------------------------------------------------
(* The temporary path of a container open for write (specifications Spec  *)
(* and SpecAbort).                                                         *)

\* The files in a directory.
FilesIn(d, directory) == {p \in DOMAIN d : DirName(p) = directory}

\* A container open for write has its file in the temporary directory and
\* no file at its final path.
WrittenAtTemporaryPath ==
    OpenForWrite(storage_file) =>
        /\ storage_file.path = OutputFile
        /\ storage_file.zipfile_path = TempPath(OutputFile)
        /\ storage_file.zipfile_path # storage_file.path
        /\ FileExists(disk, storage_file.zipfile_path)
        /\ ~ FileExists(disk, storage_file.path)

\* Open for write moves an existing file into a temporary directory that
\* held nothing; a file comes to the final path only in a Close of the
\* container open for write that returns, as the file of the temporary
\* path, and the temporary directory is empty afterwards.
TemporaryPathStep ==
    LET temporary == TempPath(OutputFile)
    IN  /\ (result'.op = "Open" /\ ~ result'.raised
              /\ OpenForWrite(storage_file'))
             => /\ FilesIn(disk, DirName(temporary)) = {}
                /\ FileExists(disk', temporary)
                /\ ~ FileExists(disk', OutputFile)
                /\ FileExists(disk, OutputFile)
                     => \A kind \in DataKinds :
                           disk'[temporary][kind] = disk[OutputFile][kind]
        /\ (~ FileExists(disk, OutputFile) /\ FileExists(disk', OutputFile))
             => /\ result'.op = "Close" /\ ~ result'.raised
                /\ OpenForWrite(storage_file)
                /\ ~ storage_file'.is_open
                /\ disk'[OutputFile]
                     = Flush(storage_file, disk).disk[temporary]
                /\ FilesIn(disk', DirName(temporary)) = {}
        /\ (FileExists(disk, temporary) /\ ~ FileExists(disk', temporary))
             => result'.op = "Close" /\ FileExists(disk', OutputFile)

\* C23: a container open for write has its file at a path in a temporary
\* directory made by Open, to which Open moves an existing file, and no
\* file at its final path; the file comes to the final path, and the
\* temporary directory goes, only in a Close that returns.
C23_WrittenAtTemporaryPath ==
    /\ []WrittenAtTemporaryPath
    /\ [][TemporaryPathStep]_vars

\* After a flush that failed and left its partial stream file in the
\* temporary directory, Close has renamed the file to the final path and
\* raised at os.rmdir: the temporary directory is still there.
C23_Witness ==
    /\ result.op = "Close" /\ result.raised
    /\ ~ storage_file.is_open
    /\ FileExists(disk, OutputFile)
    /\ FilesIn(disk, DirName(TempPath(OutputFile))) # {}

\* A file with a stored event was opened for write again: it is at the
\* temporary path and the final path is free.
ReopenedAtTemporaryPath ==
    /\ result.op = "Open" /\ ~ result.raised
    /\ OpenForWrite(storage_file)
    /\ FileExists(disk, TempPath(OutputFile))
    /\ ~ FileExists(disk, OutputFile)
    /\ Len(AllEntries(disk[TempPath(OutputFile)], "event_data")) > 0

\* Close has brought the file with a stored event back to the final path.
ClosedAtFinalPath ==
    /\ result.op = "Close" /\ ~ result.raised
    /\ ~ storage_file.is_open
    /\ FileExists(disk, OutputFile)
    /\ FilesIn(disk, DirName(TempPath(OutputFile))) = {}
    /\ Len(AllEntries(disk[OutputFile], "event_data")) > 0

----------------------------------------------------------------------------
(* Specification SpecDamaged: containers of which one stream was damaged   *)
(* after they were written and closed, opened read-only and read.  reader  *)
(* remembers the serialized events and errors the container was written    *)
(* with and the damage.                                                    *)

DamagedInputs ==
    {event \in EventInputs : event.payload = 1} \cup OtherInputs("error")

RECURSIVE SequencesUpTo(_, _)
SequencesUpTo(S, n) ==
    IF n = 0 THEN {<<>>}
    ELSE LET shorter == SequencesUpTo(S, n - 1)
         IN  shorter \cup {Append(q, x) : q \in shorter, x \in S}

\* AddEvent or AddError for each container in turn.
RECURSIVE AddAll(_, _)
AddAll(r, containers) ==
    IF containers = <<>> \/ r.raised THEN r
    ELSE AddAll(IF Head(containers).type = "event"
                THEN AddEvent(r.sf, r.disk, Head(containers))
                ELSE AddError(r.sf, r.disk, Head(containers)),
                Tail(containers))

\* The ZIP file of a container opened for write, given the containers and
\* closed.
WrittenFile(maximum_buffer_size, containers) ==
    LET added == AddAll(Open(ZIPStorageFile_init(maximum_buffer_size,
                                                 STORAGE_TYPE_SESSION),
                             <<>>, OutputFile, FALSE),
                        containers)
    IN  Close(added.sf, added.disk).disk[OutputFile]

DamagedKinds == {"event_data", "error_data"}

NoDamage == [damage |-> "none", kind |-> "none", number |-> 0, entry |-> 0]

\* The damages of one stream of a file: the size field of an entry holds
\* a value above the maximum, the data of the last entry is cut short, a
\* stream that is followed by another is gone.
EntryDamages(zip, kind) ==
    UNION {{[damage |-> "size", kind |-> kind, number |-> n, entry |-> i] :
               i \in 1..Len(zip[kind][n])}
             \cup {[damage |-> "truncated", kind |-> kind, number |-> n,
                    entry |-> Len(zip[kind][n])]} :
           n \in DOMAIN zip[kind]}

MissingDamages(zip, kind) ==
    {[damage |-> "missing", kind |-> kind, number |-> n, entry |-> 0] :
        n \in {m \in DOMAIN zip[kind] : \E l \in DOMAIN zip[kind] : l > m}}

Damages(zip) ==
    {NoDamage} \cup EntryDamages(zip, "event_data")
      \cup EntryDamages(zip, "error_data")
      \cup MissingDamages(zip, "error_data")

\* The entry with the value of its size field.
WithSize(entry, size) == ("size" :> size) @@ entry

ApplyDamage(zip, damage) ==
    CASE damage.damage = "none" -> zip
      [] damage.damage = "size" ->
           [zip EXCEPT ![damage.kind][damage.number][damage.entry] =
               WithSize(@, MAXIMUM_DATA_SIZE + 1)]
      [] damage.damage = "truncated" ->
           [zip EXCEPT ![damage.kind][damage.number][damage.entry] =
               WithSize(@, DataLen(@) + 1)]
      [] damage.damage = "missing" ->
           [zip EXCEPT ![damage.kind] =
               [n \in (DOMAIN @) \ {damage.number} |-> @[n]]]

InitDamaged ==
    /\ storage_file = ZIPStorageFile_init(MaximumBufferSize,
                                          STORAGE_TYPE_SESSION)
    /\ \E maximum_buffer_size \in {MaximumBufferSize, LargeBufferSize},
          containers \in SequencesUpTo(DamagedInputs, MaxRecords) :
         LET zip == WrittenFile(maximum_buffer_size, containers)
         IN  \E damage \in Damages(zip) :
                /\ disk = (OutputFile :> ApplyDamage(zip, damage))
                /\ reader = [phase |-> "stored",
                             events |-> AllEntries(zip, "event_data"),
                             errors |-> AllEntries(zip, "error_data"),
                             damage |-> damage]
    /\ result = [op |-> "__init__", raised |-> FALSE, argument |-> NoArgument,
                 value |-> <<>>]
    /\ accepted = NoAccepted
    /\ writers = NoWriters

\* ZIPStorageFileReader.__init__: a new ZIPStorageFile opened read-only.
DamagedOpen ==
    /\ reader.phase = "stored"
    /\ LET r == ZIPStorageFileReader_init(disk, OutputFile)
       IN  /\ storage_file' = r.sf
           /\ disk' = r.disk
           /\ result' = [op |-> "Open", raised |-> r.raised,
                         argument |-> NoArgument, value |-> <<>>]
           /\ reader' = [reader EXCEPT
                           !.phase = IF r.raised THEN @ ELSE "open"]
    /\ UNCHANGED <<accepted, writers>>

\* The first GetEvents() of the open container, drained.
DamagedGetEvents ==
    /\ reader.phase = "open"
    /\ \E r \in GetEvents(storage_file, disk, NoTimeRange) :
         /\ storage_file' = r.sf
         /\ result' = [op |-> "GetEvents", raised |-> r.raised,
                       argument |-> NoArgument, value |-> r.containers]
    /\ reader' = [reader EXCEPT !.phase = "read"]
    /\ UNCHANGED <<disk, accepted, writers>>

\* GetErrors(), drained.
DamagedGetErrors ==
    /\ reader.phase \in {"open", "read"}
    /\ LET r == GetErrors(storage_file, disk)
       IN  result' = [op |-> "GetErrors", raised |-> r.raised,
                      argument |-> NoArgument, value |-> r.containers]
    /\ UNCHANGED <<storage_file, disk, accepted, reader, writers>>

DamagedClose ==
    /\ reader.phase \in {"open", "read"}
    /\ LET r == Close(storage_file, disk)
       IN  /\ storage_file' = r.sf
           /\ disk' = r.disk
           /\ result' = [op |-> "Close", raised |-> r.raised,
                         argument |-> NoArgument, value |-> <<>>]
    /\ reader' = [reader EXCEPT !.phase = "stored"]
    /\ UNCHANGED <<accepted, writers>>

NextDamaged ==
    \/ DamagedOpen
    \/ DamagedGetEvents
    \/ DamagedGetErrors
    \/ DamagedClose

SpecDamaged == InitDamaged /\ [][NextDamaged]_vars

----------------------------------------------------------------------------
(* Read failures (specification SpecDamaged). *)

\* The serializations of the containers a read gave.
Serializations(containers) ==
    [i \in 1..Len(containers) |-> WriteSerialized(containers[i])]

\* The read of the kind of stream meets the damage.
Damaged(kind) == reader.damage.damage # "none" /\ reader.damage.kind = kind

\* GetErrors raises when a stream it reads is damaged, and returns every
\* error otherwise.
GetErrorsSurfaces ==
    result.op = "GetErrors"
        => /\ result.raised <=> Damaged("error_data")
           /\ ~ result.raised
                => Serializations(result.value) = reader.errors

\* GetEvents that does not raise has yielded every event.
GetEventsSurfaces ==
    (result.op = "GetEvents" /\ ~ result.raised)
        => SeqToBag(Serializations(result.value)) = SeqToBag(reader.events)

\* C24: a Get* operation whose read meets a malformed entry or a missing
\* stream raises; GetEvents that returns without raising has yielded every
\* stored event.
C24_ReadFailuresSurface == GetErrorsSurfaces /\ GetEventsSurfaces

\* GetEvents() of a container with two stored events, the second with a
\* size field out of bounds, has ended without raising after one event.
C24_Witness ==
    /\ result.op = "GetEvents" /\ ~ result.raised
    /\ reader.damage.damage = "size" /\ reader.damage.kind = "event_data"
    /\ reader.damage.entry = 2
    /\ Len(reader.events) = 2
    /\ Len(result.value) = 1

\* GetErrors() of the container with a damaged error stream has raised.
GetErrorsRaised ==
    /\ result.op = "GetErrors" /\ result.raised
    /\ Damaged("error_data")

----------------------------------------------------------------------------
(* Specification SpecHeap: the merge heap of GetEvents() on stored         *)
(* containers of one or more event streams, with up to MaxStreamEvents     *)
(* events and up to MaxHeapTimestamp different timestamps.  reader         *)
(* remembers the stored events and what the generator has yielded.         *)

MaxStreamEvents == 4
MaxHeapTimestamp == 4

HeapInputs ==
    [type : {"event"}, timestamp : 1..MaxHeapTimestamp, payload : {1},
     uuid : {1}]

\* With the small buffer every second event is flushed into a stream of
\* its own; with the large one all events are written to one stream.
HeapBufferSizes == {MaximumBufferSize, MaxStreamEvents}

\* The longest run of equal timestamps in a stream.
LongestRun(timestamps) ==
    LET runs == {<<i, j>> \in (1..Len(timestamps)) \X (1..Len(timestamps)) :
                    /\ i <= j
                    /\ \A k \in i..j : timestamps[k] = timestamps[i]}
        lengths == {run[2] - run[1] + 1 : run \in runs} \cup {0}
    IN  CHOOSE n \in lengths : \A m \in lengths : m <= n

\* The longest run of equal timestamps in an event stream of the file.
LongestStreamRun(zip) ==
    LET lengths == {LongestRun(EventTimestampsOf(zip["event_data"][n])) :
                       n \in DOMAIN zip["event_data"]} \cup {0}
    IN  CHOOSE n \in lengths : \A m \in lengths : m <= n

InitHeap ==
    /\ storage_file = ZIPStorageFile_init(MaximumBufferSize,
                                          STORAGE_TYPE_SESSION)
    /\ \E maximum_buffer_size \in HeapBufferSizes,
          events \in SequencesUpTo(HeapInputs, MaxStreamEvents) :
         LET zip == WrittenFile(maximum_buffer_size, events)
         IN  /\ disk = (OutputFile :> zip)
             /\ reader = [phase |-> "stored",
                          events |-> AllEntries(zip, "event_data"),
                          yielded |-> <<>>]
    /\ result = [op |-> "__init__", raised |-> FALSE, argument |-> NoArgument,
                 value |-> <<>>]
    /\ accepted = NoAccepted
    /\ writers = NoWriters

\* ZIPStorageFileReader.__init__: a new ZIPStorageFile opened read-only.
HeapOpen ==
    /\ reader.phase = "stored"
    /\ LET r == ZIPStorageFileReader_init(disk, OutputFile)
       IN  /\ storage_file' = r.sf
           /\ disk' = r.disk
           /\ result' = [op |-> "Open", raised |-> r.raised,
                         argument |-> NoArgument, value |-> <<>>]
           /\ reader' = [reader EXCEPT
                           !.phase = IF r.raised THEN @ ELSE "draining",
                           !.yielded = <<>>]
    /\ UNCHANGED <<accepted, writers>>

\* One iteration of the generator of GetEvents().
HeapGetEvents ==
    /\ reader.phase = "draining"
    /\ \E r \in GetSortedEvent(storage_file, disk, NoTimeRange) :
         /\ storage_file' = r.sf
         /\ result' = [op |-> "GetEvents", raised |-> r.raised,
                       argument |-> NoArgument, value |-> r.event]
         /\ reader' = IF r.event # <<>>
                      THEN [reader EXCEPT !.yielded = Append(@, r.event[1])]
                      ELSE [reader EXCEPT !.phase = "drained"]
    /\ UNCHANGED <<disk, accepted, writers>>

HeapClose ==
    /\ reader.phase = "drained"
    /\ LET r == Close(storage_file, disk)
       IN  /\ storage_file' = r.sf
           /\ disk' = r.disk
           /\ result' = [op |-> "Close", raised |-> r.raised,
                         argument |-> NoArgument, value |-> <<>>]
    /\ reader' = [reader EXCEPT !.phase = "closed"]
    /\ UNCHANGED <<accepted, writers>>

NextHeap ==
    \/ HeapOpen
    \/ HeapGetEvents
    \/ HeapClose

SpecHeap == InitHeap /\ [][NextHeap]_vars

----------------------------------------------------------------------------
(* The size of the merge heap (specification SpecHeap). *)

\* The number of events on the merge heap.
HeapSize(sf) == IF sf.event_heap = <<>> THEN 0 ELSE Cardinality(sf.event_heap[1])

\* C26: in every state the merge heap holds at most (number of event
\* streams) x (longest run of equal timestamps in a stream + 1) events.
C26_HeapBounded ==
    LET zip == disk[OutputFile]
    IN  HeapSize(storage_file)
          <= Cardinality(DOMAIN zip["event_data"]) * (LongestStreamRun(zip) + 1)

\* One stream of four events with four different timestamps: after the
\* first event was yielded the heap holds the three others.
C26_Witness ==
    /\ reader.phase = "draining"
    /\ Cardinality(DOMAIN disk[OutputFile]["event_data"]) = 1
    /\ LongestStreamRun(disk[OutputFile]) = 1
    /\ Len(reader.events) = 4
    /\ Len(reader.yielded) = 1
    /\ HeapSize(storage_file) = 3

\* The heap never holds more events than are stored and not yet yielded.
HeapHoldsUnyielded ==
    HeapSize(storage_file) + Len(reader.yielded) <= Len(reader.events)

----------------------------------------------------------------------------
(* Draining GetEvents() (specifications SpecHeap and SpecHeapLive). *)

\* The consumer of the generator keeps asking for the next event: weak
\* fairness of HeapGetEvents, WF_vars(HeapGetEvents), with
\* ENABLED <<HeapGetEvents>>_vars written out as the guard of the action
\* (a call of the generator always returns, and changes reader).
HeapGetEventsEnabled == reader.phase = "draining"

HeapFairness ==
    \/ []<>(~ HeapGetEventsEnabled)
    \/ []<><<HeapGetEvents>>_vars

SpecHeapLive == SpecHeap /\ HeapFairness

\* The places (stream number, entry index) of the stored events.
StoredPlaces(zip) ==
    {<<n, i>> : n \in DOMAIN zip["event_data"], i \in 0..(MaxStreamEvents + 1)}
      \cap {<<n, i>> \in (DOMAIN zip["event_data"]) \X (0..(MaxStreamEvents + 1)) :
               i < Len(zip["event_data"][n])}

\* The generator ended having yielded every stored event, each read from
\* its own place.
YieldedEveryStoredEvent ==
    LET zip == disk[OutputFile]
        yielded == reader.yielded
    IN  /\ Len(yielded) = Len(reader.events)
        /\ \A place \in StoredPlaces(zip) :
             Cardinality({k \in 1..Len(yielded) :
                             /\ yielded[k].store_number = place[1]
                             /\ yielded[k].store_index = place[2]}) = 1
        /\ \A k \in 1..Len(yielded) :
             /\ <<yielded[k].store_number, yielded[k].store_index>>
                  \in StoredPlaces(zip)
             /\ WriteSerialized(yielded[k])
                  = zip["event_data"][yielded[k].store_number]
                                     [yielded[k].store_index + 1]
        /\ SeqToBag(Serializations(yielded)) = SeqToBag(reader.events)

----------------------------------------------------------------------------
(* Accepted records and failing writes (specifications SpecAbort and Spec). *)

\* The records of the kind in the committed streams of the storage files.
RECURSIVE CommittedIn(_, _, _)
CommittedIn(d, paths, kind) ==
    IF paths = {} THEN EmptyBag
    ELSE LET p == CHOOSE x \in paths : TRUE
         IN  SeqToBag(AllEntries(d[p], DataStreamOf(kind)))
               (+) CommittedIn(d, paths \ {p}, kind)

Committed(kind) == CommittedIn(disk, StorageFiles(disk), kind)

\* Every accepted record of the kind is buffered or committed.
BufferedOrCommitted(kind) ==
    accepted[kind] \sqsubseteq
        (SeqToBag(Buffered(storage_file, kind)) (+) Committed(kind))

\* C27: every record accepted by the container is in its write buffer or in
\* a committed stream, also after a flush that was aborted by a failing
\* write, so that a later Flush or Close commits it.
C27_AcceptedBufferedOrCommitted ==
    \A kind \in BufferKinds : BufferedOrCommitted(kind)

\* A flush failed at an event; Close then returned normally and the
\* accepted event is neither buffered nor in the closed container.
C27_Witness ==
    /\ result.op = "Close" /\ ~ result.raised
    /\ ~ storage_file.is_open
    /\ FileExists(disk, OutputFile)
    /\ accepted["event"] # EmptyBag
    /\ Buffered(storage_file, "event") = <<>>
    /\ Committed("event") = EmptyBag

\* A flush just failed and a record it had taken from the buffer is lost.
AbortedFlushLostRecord ==
    /\ result.op = "Flush" /\ result.raised
    /\ reader.fault # NoFault
    /\ ~ BufferedOrCommitted(reader.fault[1].kind)

\* Without a failing write every record accepted by a container open for
\* write is buffered or committed.
AcceptedKeptWithoutFault ==
    (OpenForWrite(storage_file) /\ ~ result.raised)
        => \A kind \in BufferKinds : BufferedOrCommitted(kind)

----------------------------------------------------------------------------
(* The hand-over of a task storage file (specification SpecMerge). *)

\* The file of the task exists under its task name in the task storage
\* directory.
UnderTaskName(task_name) ==
    FileExists(disk, JoinPath(writers[SessionWriter].task_storage_path,
                              TaskFileName(task_name)))

\* The writer of the task has opened its container, and closed it.
TaskContainerClosed(task_name) ==
    /\ task_name \in TaskWriters
    /\ task_name \in reader.opened
    /\ writers[task_name].storage_file = <<>>

\* The file of a task is under its task name or in the merge directory only
\* when the container of the task was closed.
HandedOverClosed ==
    \A t \in TaskNames :
        (UnderTaskName(t) \/ InMergeDirectory(t)) => TaskContainerClosed(t)

\* PrepareMergeTaskStorage(t) returns, CheckTaskStorageReadyForMerge(t)
\* returns True and MergeTaskStorage(t) opens the file of the task only
\* when the container of the task was closed.
HandOverStep ==
    \A t \in TaskNames :
        /\ Returned("PrepareMergeTaskStorage", t)' => TaskContainerClosed(t)
        /\ (Returned("CheckTaskStorageReadyForMerge", t)'
              /\ result'.value = TRUE) => TaskContainerClosed(t)
        /\ (result'.op = "MergeTaskStorage" /\ result'.argument = t
              /\ InMergeDirectory(t)) => TaskContainerClosed(t)

\* C29: the file of a task container exists under its task name only after
\* the container was closed, so that PrepareMergeTaskStorage(t) succeeds
\* and CheckTaskStorageReadyForMerge(t) returns True only for a closed task
\* container, and MergeTaskStorage never opens a file still being written.
C29_HandOverOfClosedTask ==
    /\ []HandedOverClosed
    /\ [][HandOverStep]_vars

\* MergeTaskStorage("t1") returned True on the closed container of t1 while
\* the writer of t2 has its container open with a buffered or stored event
\* at its temporary path.
C29_Witness ==
    /\ Returned("MergeTaskStorage", "t1")
    /\ result.value = TRUE
    /\ TaskContainerClosed("t1")
    /\ "t2" \in TaskWriters
    /\ writers["t2"].storage_file # <<>>
    /\ accepted["t2"]["event"] # EmptyBag
    /\ ~ UnderTaskName("t2")
    /\ FileExists(disk, TempPath(JoinPath(writers[SessionWriter].task_storage_path,
                                          TaskFileName("t2"))))

\* PrepareMergeTaskStorage raised on a task whose container is still open.
PrepareRaisedOnOpenTask ==
    /\ result.op = "PrepareMergeTaskStorage"
    /\ result.raised
    /\ result.argument \in TaskWriters
    /\ writers[result.argument].storage_file # <<>>

----------------------------------------------------------------------------
(* Specification SpecCommit: a session storage file written by a process  *)
(* in which a write to the ZIP file at the end of a flush can fail with    *)
(* IOError: offset_table.Write(), data_stream.WriteFinalize() or           *)
(* timestamp_table.Write().  A write that fails adds no member to the ZIP  *)
(* file.                                                                   *)

CommitKinds == {"event", "event_source"}

\* The writes to the ZIP file that end the flush of a kind, in their order.
CommitSteps(kind) ==
    IF kind = "event" THEN <<"offset_table", "data_stream", "timestamp_table">>
    ELSE <<"offset_table", "data_stream">>

\* The ZIP file and the temporary file of the stream when the write numbered
\* failing of the commit raises: the writes before it were made (the
\* timestamp table is the last), the file is removed in WriteFinalize, also
\* in one that raises.
CommitAborted(sf, d, kind, stream_number, entries, failing) ==
    LET zip0 == Zip(sf, d)
        zip1 == IF failing > 1
                THEN ZipWrite(zip0, IndexStreamOf(kind), stream_number,
                              EntryOffsets(entries))
                ELSE zip0
        zip2 == IF failing > 2
                THEN ZipWrite(zip1, DataStreamOf(kind), stream_number, entries)
                ELSE zip1
        stream_file_path == StreamFilePath(sf.zipfile_path, DataStreamOf(kind),
                                           stream_number)
        d1 == [d EXCEPT ![sf.zipfile_path] = zip2]
    IN  IF failing > 1 THEN RemoveFile(d1, stream_file_path)
        ELSE (stream_file_path :> StreamFile(entries)) @@ d1

\* _WriteSerializedEvents in which a write of the commit raises: the loop
\* has popped every event, the stream number stays.
WriteSerializedEventsCommitAborted(sf, d, failing) ==
    LET popped == PopAllSerializedEvents(sf.serialized_events_heap)
        n == sf.event_stream_number
        entries == [i \in 1..Len(popped) |-> popped[i][2]]
    IN  IF sf.serialized_events_heap.data_size = 0 THEN Ok(sf, d)
        ELSE Raise([sf EXCEPT !.serialized_events_heap =
                       PopSerializedEvents(@, Len(@.heap))],
                   CommitAborted(sf, d, "event", n, entries, failing))

\* _WriteSerializedEventSources in which a write of the commit raises.
WriteSerializedEventSourcesCommitAborted(sf, d, failing) ==
    LET entries == PopAllAttributeContainers(sf.event_sources_list)
        n == sf.event_source_stream_number
    IN  IF sf.event_sources_list.data_size = 0 THEN Ok(sf, d)
        ELSE Raise([sf EXCEPT !.event_sources_list =
                       PopAttributeContainers(@, Len(@.list))],
                   CommitAborted(sf, d, "event_source", n, entries, failing))

\* Flush in which a write of the commit of the stream of one kind fails.
FlushCommitAborted(sf, d, kind, failing) ==
    LET EventSources(s, e) ==
            IF kind = "event_source"
            THEN WriteSerializedEventSourcesCommitAborted(s, e, failing)
            ELSE WriteSerializedEventSources(s, e)
        Events(s, e) ==
            IF kind = "event"
            THEN WriteSerializedEventsCommitAborted(s, e, failing)
            ELSE WriteSerializedEvents(s, e)
    IN  IF ~ sf.is_open THEN Raise(sf, d)
        ELSE IF ~ sf.read_only
        THEN Then(Then(Then(EventSources(sf, d), Events),
                       WriteSerializedEventTags),
                  WriteSerializedErrors)
        ELSE Ok(sf, d)

InitCommit ==
    /\ storage_file = ZIPStorageFile_init(AbortBufferSize, STORAGE_TYPE_SESSION)
    /\ disk = <<>>
    /\ result = [op |-> "__init__", raised |-> FALSE, argument |-> NoArgument,
                 buffered |-> 0]
    /\ accepted = NoAccepted
    /\ reader = [phase |-> "new", fault |-> NoFault]
    /\ writers = NoWriters

CommitOpen ==
    /\ reader.phase = "new"
    /\ Returns("Open", Open(storage_file, disk, OutputFile, FALSE), NoArgument)
    /\ reader' = [phase |-> "write", fault |-> NoFault]
    /\ UNCHANGED <<accepted, writers>>

CommitAddEvent ==
    /\ RoomLeft
    /\ \E event \in EventInputs :
         LET r == AddEvent(storage_file, disk, event)
         IN  /\ Returns("AddEvent", r, event)
             /\ Accepts("event", r, event)
    /\ reader' = [reader EXCEPT !.fault = NoFault]
    /\ UNCHANGED writers

CommitAddEventSource ==
    /\ RoomLeft
    /\ \E event_source \in OtherInputs("event_source") :
         LET r == AddEventSource(storage_file, disk, event_source)
         IN  /\ Returns("AddEventSource", r, event_source)
             /\ Accepts("event_source", r, event_source)
    /\ reader' = [reader EXCEPT !.fault = NoFault]
    /\ UNCHANGED writers

CommitFlush ==
    /\ reader.phase = "write"
    /\ Returns("Flush", Flush(storage_file, disk), NoArgument)
    /\ reader' = [reader EXCEPT !.fault = NoFault]
    /\ UNCHANGED <<accepted, writers>>

\* Flush in which the write numbered failing of the commit of the stream
\* of kind fails.
CommitFlushFails ==
    /\ storage_file.is_open
    /\ \E kind \in CommitKinds :
         /\ BufferSize(storage_file, kind) > 0
         /\ \E failing \in 1..Len(CommitSteps(kind)) :
              /\ Returns("Flush",
                         FlushCommitAborted(storage_file, disk, kind, failing),
                         NoArgument)
              /\ reader' = [reader EXCEPT !.fault =
                              <<[kind |-> kind,
                                 stream_number |-> StreamNumber(storage_file,
                                                                kind),
                                 step |-> CommitSteps(kind)[failing],
                                 zipfile_path |-> storage_file.zipfile_path]>>]
    /\ UNCHANGED <<accepted, writers>>

CommitClose ==
    /\ reader.phase = "write"
    /\ Returns("Close", Close(storage_file, disk), NoArgument)
    /\ reader' = [reader EXCEPT !.fault = NoFault]
    /\ UNCHANGED <<accepted, writers>>

NextCommit ==
    \/ CommitOpen
    \/ CommitAddEvent
    \/ CommitAddEventSource
    \/ CommitFlush
    \/ CommitFlushFails
    \/ CommitClose

SpecCommit == InitCommit /\ [][NextCommit]_vars

----------------------------------------------------------------------------
(* Whole stream generations (specifications SpecCommit, SpecAbort, Spec). *)

\* The ZIP file lists a data stream exactly when it lists its tables.
WholeGenerations(zip) ==
    /\ DOMAIN zip["event_data"] = DOMAIN zip["event_index"]
    /\ DOMAIN zip["event_data"] = DOMAIN zip["event_timestamps"]
    /\ DOMAIN zip["event_source_data"] = DOMAIN zip["event_source_index"]

\* C30: in every state, also after a flush that failed part-way, a
\* container lists event_data.N exactly when it lists event_index.N and
\* event_timestamps.N, and event_source_data.N exactly when it lists
\* event_source_index.N.
C30_WholeStreamGenerations ==
    \A p \in StorageFiles(disk) : WholeGenerations(disk[p])

\* A flush failed in WriteFinalize of event stream 1: the container lists
\* event_index.1 and neither event_data.1 nor event_timestamps.1.
C30_Witness ==
    /\ result.op = "Flush" /\ result.raised
    /\ reader.fault # NoFault
    /\ reader.fault[1].kind = "event"
    /\ reader.fault[1].step = "data_stream"
    /\ HasStream(disk[reader.fault[1].zipfile_path], "event_index", 1)
    /\ ~ HasStream(disk[reader.fault[1].zipfile_path], "event_data", 1)
    /\ ~ HasStream(disk[reader.fault[1].zipfile_path], "event_timestamps", 1)

\* The container was closed and its file at the final path lists an event
\* data stream without its timestamp table.
ClosedWithoutTimestampTable ==
    /\ result.op = "Close" /\ ~ result.raised
    /\ FileExists(disk, OutputFile)
    /\ HasStream(disk[OutputFile], "event_data", 1)
    /\ ~ HasStream(disk[OutputFile], "event_timestamps", 1)

\* When no write to the ZIP file fails the generations are whole, also
\* after a flush in which the write of an entry failed.
WholeGenerationsWithoutCommitFault ==
    \A p \in StorageFiles(disk) : WholeGenerations(disk[p])

----------------------------------------------------------------------------
(* The stream numbers of the record kinds (specifications Spec and         *)
(* SpecOpen).                                                              *)

\* The kind of data stream a flush of the record kind writes.
WrittenDataStreamOf(sf, kind) ==
    IF kind = "event_tag" THEN EventTagDataPrefix(sf.format_version)
    ELSE DataStreamOf(kind)

\* The stream numbers of the kind the file of the container holds.
HeldNumbers(sf, d, kind) ==
    IF sf.zipfile_path \in DOMAIN d
    THEN DOMAIN d[sf.zipfile_path][WrittenDataStreamOf(sf, kind)]
    ELSE IF sf.path \in DOMAIN d
    THEN DOMAIN d[sf.path][WrittenDataStreamOf(sf, kind)]
    ELSE {}

\* The step is an Open for write that returned.
OpenedForWriteStep ==
    /\ result'.op = "Open" /\ ~ result'.raised
    /\ ~ storage_file.is_open
    /\ OpenForWrite(storage_file')

\* Open for write of a file that did not exist sets every stream number to
\* 1, and Open for write of a file that exists sets the stream number of a
\* kind above every stream number of the kind in the file.
OpenSetsStreamNumbers ==
    OpenedForWriteStep =>
        \A kind \in BufferKinds :
            /\ (storage_file'.path \notin DOMAIN disk)
                 => StreamNumber(storage_file', kind) = 1
            /\ \A n \in HeldNumbers(storage_file', disk', kind) :
                  n < StreamNumber(storage_file', kind)

\* A call on a container open for write raises the stream number of a kind
\* by one when it commits a stream of the kind, which has the number the
\* kind had and is new in the file, and leaves it otherwise.
FlushAdvancesStreamNumber ==
    (OpenForWrite(storage_file) /\ result'.op # "Open") =>
        \A kind \in BufferKinds :
            LET n == StreamNumber(storage_file, kind)
                before == HeldNumbers(storage_file, disk, kind)
                after == HeldNumbers(storage_file, disk', kind)
            IN  /\ StreamNumber(storage_file', kind) \in {n, n + 1}
                /\ StreamNumber(storage_file', kind) = n + 1
                     <=> after # before
                /\ StreamNumber(storage_file', kind) = n + 1
                     => (n \notin before /\ after = before \cup {n})

\* C31: the stream number of a record kind is 1 in a fresh container, goes
\* up by exactly one per successful flush of the kind and is not changed by
\* a flush of another kind; after a container was reopened for write it is
\* greater than every stream number of the kind in the file, so that a
\* flush never writes a stream the container already holds.
C31_StreamNumbers ==
    [][OpenSetsStreamNumbers /\ FlushAdvancesStreamNumber]_vars

\* A container of format version 20160501 with event_data.1 was reopened
\* for write and its event stream number is 1 again.
C31_Witness ==
    /\ result.op = "Open" /\ ~ result.raised
    /\ OpenForWrite(storage_file)
    /\ storage_file.format_version = COMPATIBLE_FORMAT_VERSION
    /\ storage_file.event_stream_number = 1
    /\ HasStream(Zip(storage_file, disk), "event_data", 1)


\* In a container of a format version after 20160501 the stream numbers
\* are set and advanced as stated.
StreamNumbersOfCurrentFormat ==
    [][storage_file'.format_version > COMPATIBLE_FORMAT_VERSION
         => (OpenSetsStreamNumbers /\ FlushAdvancesStreamNumber)]_vars


----------------------------------------------------------------------------
(* The caches of offset tables and timestamp tables.  A container with     *)
(* MaxCachedStreams event streams and event source streams is read; the    *)
(* cache fields of the storage file are the fields of reader.              *)

MaxCachedStreams == 6
MaxLookups == 9

MAXIMUM_NUMBER_OF_CACHED_TABLES == 5

\* One event and one event source are added and flushed for each stream.
RECURSIVE WriteStreams(_, _)
WriteStreams(r, n) ==
    IF n = 0 \/ r.raised THEN r
    ELSE LET e == AddEvent(r.sf, r.disk,
                           [type |-> "event", timestamp |-> 1,
                            payload |-> 1, uuid |-> 1])
             s == Then(e, LAMBDA sf, d :
                            AddEventSource(sf, d, [type |-> "event_source",
                                                   payload |-> 1]))
         IN  WriteStreams(Then(s, Flush), n - 1)

CachedContainer ==
    LET written == WriteStreams(Open(ZIPStorageFile_init(MaximumBufferSize,
                                                         STORAGE_TYPE_SESSION),
                                     <<>>, OutputFile, FALSE),
                                MaxCachedStreams)
    IN  Close(written.sf, written.disk).disk

\* ZIPStorageFile.__init__: the caches and their lists of stream numbers.
TableCaches_init ==
    [event_offset_tables |-> <<>>,
     event_offset_tables_lfu |-> <<>>,
     event_source_offset_tables |-> <<>>,
     event_source_offset_tables_lfu |-> <<>>,
     event_timestamp_tables |-> <<>>,
     event_timestamp_tables_lfu |-> <<>>]

\* _SerializedDataOffsetTable(zipfile, stream_name) after Read(), and
\* _SerializedDataTimestampTable likewise.
ReadTable(zip, kind, stream_number) ==
    [stream_name |-> StreamName(kind, stream_number),
     entries |-> zip[kind][stream_number]]

\* The stream of a name is in the ZIP file; the files of the model hold no
\* stream of the prefixes plaso_index and plaso_timestamps.
HasTableStream(zip, kind, stream_number) ==
    kind \in DOMAIN zip /\ HasStream(zip, kind, stream_number)

TableOk(caches, table) == [caches |-> caches, raised |-> FALSE, value |-> <<table>>]
TableRaise(caches) == [caches |-> caches, raised |-> TRUE, value |-> <<>>]

\* if stream_number in lfu: lfu.pop(lfu.index(stream_number));
\* lfu.append(stream_number)
TouchTable(lfu, stream_number) ==
    SelectSeq(lfu, LAMBDA n : n # stream_number) \o <<stream_number>>

\* del cache[stream_number] that leaves the table in the cache.
DeleteTable_Keep(cache, stream_number) == cache

\* del cache[stream_number]
DeleteTable(cache, stream_number) ==
    [n \in DOMAIN cache \ {stream_number} |-> cache[n]]

\* list.pop(): the last element.
PopTable(lfu) == [lfu |-> SubSeq(lfu, 1, Len(lfu) - 1), stream_number |-> lfu[Len(lfu)]]

\* Makes room in a full cache: the number popped from the list popped_lfu
\* is deleted from the cache.  IndexError on an empty list, KeyError on a
\* number the cache does not hold; the pop has happened by then.
EvictTable(caches, cache, popped_lfu) ==
    IF Cardinality(DOMAIN caches[cache]) < MAXIMUM_NUMBER_OF_CACHED_TABLES
    THEN TableOk(caches, <<>>)
    ELSE IF caches[popped_lfu] = <<>> THEN TableRaise(caches)
    ELSE LET popped == PopTable(caches[popped_lfu])
             caches1 == [caches EXCEPT ![popped_lfu] = popped.lfu]
         IN  IF popped.stream_number \notin DOMAIN caches1[cache]
             THEN TableRaise(caches1)
             ELSE TableOk([caches1 EXCEPT ![cache] =
                              DeleteTable(@, popped.stream_number)], <<>>)

\* The part of the two lookups after the stream was found missing from the
\* cache and read: eviction, then the table enters the cache.
CacheTable(caches, cache, lfu, popped_lfu, table, stream_number) ==
    LET evicted == EvictTable(caches, cache, popped_lfu)
    IN  IF evicted.raised THEN evicted
        ELSE TableOk([evicted.caches EXCEPT
                        ![cache] = (stream_number :> table) @@ @,
                        ![lfu] = TouchTable(@, stream_number)], table)

\* The full cache sheds lfu_stream_number = self._event_offset_tables_lfu
\* .pop(), whichever cache and list were passed.
GetSerializedDataOffsetTable(caches, zip, cache, lfu, kind, stream_number) ==
    IF stream_number \in DOMAIN caches[cache]
    THEN TableOk([caches EXCEPT ![lfu] = TouchTable(@, stream_number)],
                 caches[cache][stream_number])
    ELSE IF ~ HasTableStream(zip, kind, stream_number) THEN TableRaise(caches)
    ELSE CacheTable(caches, cache, lfu, "event_offset_tables_lfu",
                    ReadTable(zip, kind, stream_number), stream_number)

GetSerializedEventOffsetTable(sf, caches, zip, stream_number) ==
    GetSerializedDataOffsetTable(
        caches, zip, "event_offset_tables", "event_offset_tables_lfu",
        IF sf.format_version <= 20160501 THEN "plaso_index"
        ELSE "event_index", stream_number)

GetSerializedEventSourceOffsetTable(caches, zip, stream_number) ==
    GetSerializedDataOffsetTable(
        caches, zip, "event_source_offset_tables",
        "event_source_offset_tables_lfu", "event_source_index", stream_number)

\* timestamp_table.Read() raises IOError on a stream that is not there.
GetSerializedEventTimestampTable(sf, caches, zip, stream_number) ==
    LET kind == IF sf.format_version <= 20160501 THEN "plaso_timestamps"
                ELSE "event_timestamps"
    IN  IF stream_number \in DOMAIN caches.event_timestamp_tables
        THEN TableOk([caches EXCEPT !.event_timestamp_tables_lfu =
                         TouchTable(@, stream_number)],
                     caches.event_timestamp_tables[stream_number])
        ELSE IF ~ HasTableStream(zip, kind, stream_number)
        THEN TableRaise(caches)
        ELSE CacheTable(caches, "event_timestamp_tables",
                        "event_timestamp_tables_lfu",
                        "event_timestamp_tables_lfu",
                        ReadTable(zip, kind, stream_number), stream_number)


\* The stream numbers a lookup is made for: the callers walk the streams in
\* ascending order, and come back to the streams they have walked.
Walked(caches, cache, lfu) ==
    DOMAIN caches[cache] \cup {caches[lfu][i] : i \in 1..Len(caches[lfu])}

NextWalked(caches, cache, lfu) ==
    LET walked == Walked(caches, cache, lfu) \cup {0}
    IN  1..((CHOOSE n \in walked : \A m \in walked : m <= n) + 1)

LookupNumbers(caches, cache, lfu) ==
    NextWalked(caches, cache, lfu) \cap 1..MaxCachedStreams

InitCache ==
    /\ disk = CachedContainer
    /\ storage_file = Open(ZIPStorageFile_init(MaximumBufferSize,
                                               STORAGE_TYPE_SESSION),
                           CachedContainer, OutputFile, TRUE).sf
    /\ reader = [caches |-> TableCaches_init, lookups |-> 0,
                 before |-> TableCaches_init]
    /\ result = [op |-> "Open", raised |-> FALSE, argument |-> 0,
                 value |-> <<>>]
    /\ accepted = NoAccepted
    /\ writers = NoWriters

\* The step of a lookup: reader.before keeps the caches of before the call.
LookedUp(op, r, stream_number) ==
    /\ reader.lookups < MaxLookups
    /\ reader' = [caches |-> r.caches, lookups |-> reader.lookups + 1,
                  before |-> reader.caches]
    /\ result' = [op |-> op, raised |-> r.raised, argument |-> stream_number,
                  value |-> r.value]
    /\ UNCHANGED <<storage_file, disk, accepted, writers>>

CacheGetEventOffsetTable ==
    \E n \in LookupNumbers(reader.caches, "event_offset_tables",
                           "event_offset_tables_lfu") :
       LookedUp("_GetSerializedEventOffsetTable",
                GetSerializedEventOffsetTable(
                    storage_file, reader.caches, Zip(storage_file, disk), n),
                n)

CacheGetEventSourceOffsetTable ==
    \E n \in LookupNumbers(reader.caches, "event_source_offset_tables",
                           "event_source_offset_tables_lfu") :
       LookedUp("_GetSerializedEventSourceOffsetTable",
                GetSerializedEventSourceOffsetTable(
                    reader.caches, Zip(storage_file, disk), n),
                n)

CacheGetEventTimestampTable ==
    \E n \in LookupNumbers(reader.caches, "event_timestamp_tables",
                           "event_timestamp_tables_lfu") :
       LookedUp("_GetSerializedEventTimestampTable",
                GetSerializedEventTimestampTable(
                    storage_file, reader.caches, Zip(storage_file, disk), n),
                n)

NextCache ==
    \/ CacheGetEventOffsetTable
    \/ CacheGetEventSourceOffsetTable
    \/ CacheGetEventTimestampTable

SpecCache == InitCache /\ [][NextCache]_vars

CacheStateOk ==
    /\ DOMAIN Zip(storage_file, disk)["event_index"] = 1..MaxCachedStreams
    /\ DOMAIN Zip(storage_file, disk)["event_source_index"] = 1..MaxCachedStreams
    /\ DOMAIN Zip(storage_file, disk)["event_timestamps"] = 1..MaxCachedStreams


\* The cache, the list and the stream prefix of each lookup.
TableLookups ==
    ("_GetSerializedEventOffsetTable" :>
        [cache |-> "event_offset_tables", lfu |-> "event_offset_tables_lfu",
         kind |-> "event_index"])
    @@ ("_GetSerializedEventSourceOffsetTable" :>
        [cache |-> "event_source_offset_tables",
         lfu |-> "event_source_offset_tables_lfu",
         kind |-> "event_source_index"])
    @@ ("_GetSerializedEventTimestampTable" :>
        [cache |-> "event_timestamp_tables",
         lfu |-> "event_timestamp_tables_lfu", kind |-> "event_timestamps"])

SeqRange(q) == {q[i] : i \in 1..Len(q)}

\* The last step loaded a table into a cache that was full.
LoadedIntoFullCache(lookup) ==
    /\ result.argument \notin DOMAIN reader.before[lookup.cache]
    /\ Cardinality(DOMAIN reader.before[lookup.cache])
         >= MAXIMUM_NUMBER_OF_CACHED_TABLES

\* The table shed is the one of the cache touched longest ago: the head of
\* the list of the cache.
ShedLeastRecentlyTouched(lookup) ==
    /\ reader.before[lookup.lfu] # <<>>
    /\ DOMAIN reader.caches[lookup.cache]
         = (DOMAIN reader.before[lookup.cache]
              \ {Head(reader.before[lookup.lfu])}) \cup {result.argument}

ReturnedRequestedTable(lookup) ==
    result.value = <<ReadTable(Zip(storage_file, disk), lookup.kind,
                               result.argument)>>

\* C32: a lookup of the table of a stream of the container returns that
\* table whatever the caches hold; when the table is loaded into a full
\* cache the table shed is the least recently touched one of that cache;
\* afterwards the cache and its recency list name the same stream numbers.
C32_TableCacheEviction ==
    result.op \in DOMAIN TableLookups =>
      LET lookup == TableLookups[result.op]
      IN  /\ ~ result.raised
          /\ ReturnedRequestedTable(lookup)
          /\ LoadedIntoFullCache(lookup) => ShedLeastRecentlyTouched(lookup)
          /\ DOMAIN reader.caches[lookup.cache]
               = SeqRange(reader.caches[lookup.lfu])

\* The sixth timestamp table was loaded and the table touched last was shed.
C32_Witness ==
    /\ result.op = "_GetSerializedEventTimestampTable"
    /\ ~ result.raised
    /\ LoadedIntoFullCache(TableLookups[result.op])
    /\ reader.before.event_timestamp_tables_lfu = <<1, 2, 3, 4, 5>>
    /\ result.argument = 6
    /\ DOMAIN reader.caches.event_timestamp_tables = {1, 2, 3, 4, 6}

\* The lookup of the sixth event source offset table raised: the list of
\* the event offset tables was popped, and it was empty.
SourceLookupRaisedOnFullCache ==
    /\ result.op = "_GetSerializedEventSourceOffsetTable"
    /\ result.raised
    /\ reader.caches.event_offset_tables_lfu = <<>>
    /\ DOMAIN reader.caches.event_source_offset_tables = 1..5

\* An event source offset table left the cache and stayed in the list of
\* the cache, and the event offset table of that number left its list.
SourceCacheShedByEventList ==
    /\ result.op = "_GetSerializedEventSourceOffsetTable"
    /\ ~ result.raised
    /\ DOMAIN reader.caches.event_source_offset_tables
         # SeqRange(reader.caches.event_source_offset_tables_lfu)
    /\ DOMAIN reader.caches.event_offset_tables
         # SeqRange(reader.caches.event_offset_tables_lfu)

\* A lookup that returns returns the table of the stream asked for.
LookupReturnsRequestedTable ==
    (result.op \in DOMAIN TableLookups /\ ~ result.raised)
      => ReturnedRequestedTable(TableLookups[result.op])

\* C33: each cache holds at most MAXIMUM_NUMBER_OF_CACHED_TABLES tables
\* after any lookups.
C33_CacheBounded ==
    \A lookup \in {TableLookups[op] : op \in DOMAIN TableLookups} :
       Cardinality(DOMAIN reader.caches[lookup.cache])
         <= MAXIMUM_NUMBER_OF_CACHED_TABLES

\* A table was loaded into a full cache, which is full afterwards.
C33_Witness ==
    /\ result.op \in DOMAIN TableLookups
    /\ ~ result.raised
    /\ LoadedIntoFullCache(TableLookups[result.op])
    /\ result.argument \in DOMAIN reader.caches[TableLookups[result.op].cache]
    /\ Cardinality(DOMAIN reader.caches[TableLookups[result.op].cache])
         = MAXIMUM_NUMBER_OF_CACHED_TABLES


----------------------------------------------------------------------------
(* The tag index after a batch of tags was written.                        *)

\* The arguments of the lookup of the tag of a key: the numeric identifier
\* of the event, or its UUID with the identifier of an event without tag.
LookupOfKey(key) ==
    IF key[1] = "numeric" THEN <<key[2], key[3], None>>
    ELSE <<9, 9, key[2]>>

\* The index value addresses, in an event tag stream of the file, the
\* entry of a tag of the key.
AddressesTagOf(zip, value, key) ==
    \E n \in DOMAIN zip["event_tag_data"] :
       LET read == ReadEntry(zip["event_tag_data"][n],
                             SeekEntryAtOffset(zip["event_tag_data"][n],
                                               SerializedDataStream_init, 0,
                                               value.offset))
       IN  /\ ~ read.raised
           /\ read.data # <<>>
           /\ StringKey(ReadSerialized(read.data[1])) = key

\* The lookup of the key on the object sf finds an entry of that key.
LookupFinds(sf, d, key) ==
    LET lookup == LookupOfKey(key)
        found == GetEventTagIndexValue(sf, d, lookup[1], lookup[2], lookup[3])
    IN  /\ found.value # <<>>
        /\ TagIdentifier(found.value[1]) = key
        /\ AddressesTagOf(Zip(sf, d), found.value[1], key)

BatchWritten == result'.op = "AddEventTags" /\ ~ result'.raised

\* C34: when AddEventTags has returned, the tag index is not built, and
\* the lookup made next finds an entry for the tag of the batch and for
\* every tag added before it.
C34_BatchInvalidatesIndex ==
    [][BatchWritten =>
         /\ storage_file'.event_tag_index = <<>>
         /\ StringKey(result'.argument) \in DOMAIN reader'.tagged
         /\ \A key \in DOMAIN reader'.tagged :
               LookupFinds(storage_file', disk', key)]_vars

\* A second batch has been written: the index that the second batch built
\* held the tag of the first, and is not built now.
C34_Witness ==
    /\ result.op = "AddEventTags"
    /\ ~ result.raised
    /\ storage_file.event_tag_index = <<>>
    /\ Cardinality(DOMAIN Zip(storage_file, disk)["event_tag_index"]) = 2
    /\ Cardinality(DOMAIN reader.tagged) >= 2
    /\ \A key \in DOMAIN reader.tagged : LookupFinds(storage_file, disk, key)


\* The keys of the tags in the event tag streams of a file.
StoredTagKeys(zip) ==
    UNION {{StringKey(ReadSerialized(zip["event_tag_data"][n][i])) :
               i \in 1..Len(zip["event_tag_data"][n])} :
           n \in DOMAIN zip["event_tag_data"]}

\* Also when tags are added again for events that have a tag: after a
\* batch the index is not built and the lookup finds an entry for every
\* key that an event tag stream of the file holds, the one of the batch
\* among them.
RetaggedBatchFound ==
    [][BatchWritten =>
         /\ storage_file'.event_tag_index = <<>>
         /\ StringKey(result'.argument)
              \in StoredTagKeys(Zip(storage_file', disk'))
         /\ \A key \in StoredTagKeys(Zip(storage_file', disk')) :
               LookupFinds(storage_file', disk', key)]_vars


----------------------------------------------------------------------------
(* The lookup of an event tag index value.                                 *)

\* The places (stream number, position) of the entries of the event tag
\* index streams of a file that carry an identifier, as index values.
IndexPlaces(zip, identifier) ==
    {place \in UNION {{<<n, i>> : i \in 1..Len(zip["event_tag_index"][n])} :
                         n \in DOMAIN zip["event_tag_index"]} :
        TagIdentifier(ParseTagIndexStruct(
            zip["event_tag_index"][place[1]][place[2]], place[1]))
          = identifier}

\* The entry of an identifier that was written last.
LastIndexValue(zip, identifier) ==
    LET places == IndexPlaces(zip, identifier)
        last == CHOOSE p \in places :
                   \A q \in places : LexLess(q, p) \/ q = p
    IN  ParseTagIndexStruct(zip["event_tag_index"][last[1]][last[2]], last[1])

\* What the lookup of (store_number, entry_index, uuid) is to return.
ExpectedIndexValue(zip, store_number, entry_index, uuid) ==
    IF IndexPlaces(zip, <<"numeric", store_number, entry_index>>) # {}
    THEN <<LastIndexValue(zip, <<"numeric", store_number, entry_index>>)>>
    ELSE IF IndexPlaces(zip, <<"uuid", uuid, 0>>) # {}
    THEN <<LastIndexValue(zip, <<"uuid", uuid, 0>>)>>
    ELSE <<>>

\* C35: on an open container read, the lookup of (store_number,
\* entry_index, uuid) leaves the index built, returns the entry of the
\* numeric identifier when the index streams have one, else the entry of
\* the UUID when they have one, else None.
C35_TagIndexLookup ==
    (storage_file.is_open /\ reader.phase \in {"reading", "looked"}) =>
      \A identifier \in LookupIdentifiers :
         LET found == GetEventTagIndexValue(storage_file, disk, identifier[1],
                                            identifier[2], identifier[3])
         IN  /\ found.sf.event_tag_index # <<>>
             /\ storage_file.event_tag_index # <<>> => found.sf = storage_file
             /\ found.value
                  = ExpectedIndexValue(Zip(storage_file, disk), identifier[1],
                                       identifier[2], identifier[3])

\* A lookup was made, on a file with a tag of a numeric identifier and a
\* tag of a UUID: the lookup of both returns the numeric entry, the lookup
\* of the UUID with another event the entry of the UUID, and the lookup of
\* neither None.
C35_Witness ==
    /\ reader.phase = "looked"
    /\ result.op = "_ReadEventTagByIdentifier"
    /\ storage_file.event_tag_index # <<>>
    /\ GetEventTagIndexValue(storage_file, disk, 1, 0, 1).value # <<>>
    /\ GetEventTagIndexValue(storage_file, disk, 1, 0, 1).value[1].tag_type
         = TAG_TYPE_NUMERIC
    /\ GetEventTagIndexValue(storage_file, disk, 2, 1, 1).value # <<>>
    /\ GetEventTagIndexValue(storage_file, disk, 2, 1, 1).value[1].tag_type
         = TAG_TYPE_UUID
    /\ GetEventTagIndexValue(storage_file, disk, 2, 1, 2).value = <<>>


----------------------------------------------------------------------------
(* Specification SpecSerialize: containers that cannot be serialized are   *)
(* among the containers added.                                             *)

\* A payload of 0 bytes is a container whose serialization is empty.
SerializePayloads == 0..MaxPayload

SerializeInputs(type) ==
    CASE type = "event" ->
           [type : {"event"}, timestamp : {1}, payload : SerializePayloads,
            uuid : {1}]
      [] type = "event_tag" ->
           [type : {"event_tag"}, payload : SerializePayloads,
            store_number : {1}, store_index : {0}, event_uuid : {None}]
      [] OTHER -> [type : {type}, payload : SerializePayloads]

InitSerialize ==
    /\ storage_file = ZIPStorageFile_init(MaximumBufferSize, STORAGE_TYPE_SESSION)
    /\ disk = <<>>
    /\ result = [op |-> "__init__", raised |-> FALSE, argument |-> NoArgument,
                 buffered |-> 0]
    /\ accepted = NoAccepted
    /\ reader = ReaderIdle
    /\ writers = NoWriters

SerializeOpen ==
    /\ ~ storage_file.is_open
    /\ \E read_only \in BOOLEAN :
         /\ read_only => FileExists(disk, OutputFile)
         /\ Returns("Open", Open(storage_file, disk, OutputFile, read_only),
                    NoArgument)
    /\ UNCHANGED <<accepted, reader, writers>>

SerializeAddEvent ==
    /\ RoomLeft
    /\ \E event \in SerializeInputs("event") :
         LET r == AddEvent(storage_file, disk, event)
         IN  /\ Returns("AddEvent", r, event)
             /\ Accepts("event", r, event)
    /\ UNCHANGED <<reader, writers>>

SerializeAddEventSource ==
    /\ RoomLeft
    /\ \E event_source \in SerializeInputs("event_source") :
         LET r == AddEventSource(storage_file, disk, event_source)
         IN  /\ Returns("AddEventSource", r, event_source)
             /\ Accepts("event_source", r, event_source)
    /\ UNCHANGED <<reader, writers>>

SerializeAddError ==
    /\ RoomLeft
    /\ \E error \in SerializeInputs("error") :
         LET r == AddError(storage_file, disk, error)
         IN  /\ Returns("AddError", r, error)
             /\ Accepts("error", r, error)
    /\ UNCHANGED <<reader, writers>>

SerializeAddEventTag ==
    /\ RoomLeft
    /\ \E event_tag \in SerializeInputs("event_tag") :
         LET r == AddEventTag(storage_file, disk, event_tag)
         IN  /\ Returns("AddEventTag", r, event_tag)
             /\ Accepts("event_tag", r, event_tag)
    /\ UNCHANGED <<reader, writers>>

SerializeFlush ==
    /\ storage_file.is_open
    /\ Returns("Flush", Flush(storage_file, disk), NoArgument)
    /\ UNCHANGED <<accepted, reader, writers>>

SerializeClose ==
    /\ storage_file.is_open
    /\ Returns("Close", Close(storage_file, disk), NoArgument)
    /\ UNCHANGED <<accepted, reader, writers>>

NextSerialize ==
    \/ SerializeOpen
    \/ SerializeAddEvent
    \/ SerializeAddEventSource
    \/ SerializeAddError
    \/ SerializeAddEventTag
    \/ SerializeFlush
    \/ SerializeClose

SpecSerialize == InitSerialize /\ [][NextSerialize]_vars

AddOperations == {"AddEvent", "AddEventSource", "AddError", "AddEventTag"}

\* The step of an Add call with a container that cannot be serialized.
SerializationFailedStep ==
    /\ result'.op \in AddOperations
    /\ ~ Serializable(result'.argument)

\* C36: AddEvent, AddEventSource, AddError and AddEventTag of a container
\* whose serialization fails raise, and the buffers, their sizes, the
\* stream numbers and the files are as they were before the call.
C36_SerializationFailsFirst ==
    [][SerializationFailedStep =>
         /\ result'.raised
         /\ storage_file' = storage_file
         /\ disk' = disk
         /\ accepted' = accepted]_vars

\* AddEvent of an event that cannot be serialized has raised on a
\* container open for write that holds a buffered record and a stream.
C36_Witness ==
    /\ result.op = "AddEvent"
    /\ result.raised
    /\ ~ Serializable(result.argument)
    /\ OpenForWrite(storage_file)
    /\ BufferedCount(storage_file) > 0
    /\ CountEntries(Zip(storage_file, disk), DataKinds) > 0


----------------------------------------------------------------------------
(* Specification SpecList: errors and event sources that differ are        *)
(* added, flushed at the threshold or by Flush, the container is closed    *)
(* and read, and opened again.                                             *)

MaxListPayload == 2
MaxListRecords == 4

ListKinds == {"error", "event_source"}

\* With the small buffer a record of size 2 is flushed as it is added and
\* two records of size 1 together; with the large one Flush and Close
\* write the streams.
ListBufferSizes == {MaximumBufferSize, MaxListPayload * MaxListRecords}

ListInputs(type) == [type : {type}, payload : 1..MaxListPayload]

InitList ==
    /\ storage_file \in {ZIPStorageFile_init(size, STORAGE_TYPE_SESSION) :
                            size \in ListBufferSizes}
    /\ disk = <<>>
    /\ result = [op |-> "__init__", raised |-> FALSE, argument |-> NoArgument,
                 value |-> <<>>]
    /\ accepted = NoAccepted
    /\ reader = [phase |-> "closed", added |-> [k \in ListKinds |-> <<>>]]
    /\ writers = NoWriters

ListReturns(op, r, argument) ==
    /\ storage_file' = r.sf
    /\ disk' = r.disk
    /\ result' = [op |-> op, raised |-> r.raised, argument |-> argument,
                  value |-> <<>>]

ListOpen ==
    /\ reader.phase = "closed"
    /\ ListReturns("Open", Open(storage_file, disk, OutputFile, FALSE),
                   NoArgument)
    /\ reader' = [reader EXCEPT !.phase = "write"]
    /\ UNCHANGED <<accepted, writers>>

ListAdded(kind, r, container) ==
    reader' = IF r.raised THEN reader
              ELSE [reader EXCEPT !.added[kind] = Append(@, container)]

ListRoomLeft ==
    Len(reader.added["error"]) + Len(reader.added["event_source"])
      < MaxListRecords

ListAddError ==
    /\ reader.phase = "write"
    /\ ListRoomLeft
    /\ \E error \in ListInputs("error") :
         LET r == AddError(storage_file, disk, error)
         IN  /\ ListReturns("AddError", r, error)
             /\ ListAdded("error", r, error)
    /\ UNCHANGED <<accepted, writers>>

ListAddEventSource ==
    /\ reader.phase = "write"
    /\ ListRoomLeft
    /\ \E event_source \in ListInputs("event_source") :
         LET r == AddEventSource(storage_file, disk, event_source)
         IN  /\ ListReturns("AddEventSource", r, event_source)
             /\ ListAdded("event_source", r, event_source)
    /\ UNCHANGED <<accepted, writers>>

ListFlush ==
    /\ reader.phase = "write"
    /\ BufferedCount(storage_file) > 0
    /\ ListReturns("Flush", Flush(storage_file, disk), NoArgument)
    /\ UNCHANGED <<accepted, reader, writers>>

ListClose ==
    /\ reader.phase \in {"write", "reading"}
    /\ ListReturns("Close", Close(storage_file, disk), NoArgument)
    /\ reader' = [reader EXCEPT !.phase = "closed"]
    /\ UNCHANGED <<accepted, writers>>

\* ZIPStorageFileReader.__init__: a new ZIPStorageFile opened read-only.
ListOpenReader ==
    /\ reader.phase = "closed"
    /\ FileExists(disk, OutputFile)
    /\ ListReturns("Open",
                   Open(ZIPStorageFile_init(storage_file.maximum_buffer_size,
                                            STORAGE_TYPE_SESSION),
                        disk, OutputFile, TRUE),
                   NoArgument)
    /\ reader' = [reader EXCEPT !.phase = "reading"]
    /\ UNCHANGED <<accepted, writers>>

ListGetErrors ==
    /\ reader.phase = "reading"
    /\ LET r == GetErrors(storage_file, disk)
       IN  result' = [op |-> "GetErrors", raised |-> r.raised,
                      argument |-> NoArgument, value |-> r.containers]
    /\ UNCHANGED <<storage_file, disk, accepted, reader, writers>>

ListGetEventSources ==
    /\ reader.phase = "reading"
    /\ LET r == GetEventSources(storage_file, disk)
       IN  result' = [op |-> "GetEventSources", raised |-> r.raised,
                      argument |-> NoArgument, value |-> r.containers]
    /\ UNCHANGED <<storage_file, disk, accepted, reader, writers>>

NextList ==
    \/ ListOpen
    \/ ListAddError
    \/ ListAddEventSource
    \/ ListFlush
    \/ ListClose
    \/ ListOpenReader
    \/ ListGetErrors
    \/ ListGetEventSources

SpecList == InitList /\ [][NextList]_vars

ListReaders == ("GetErrors" :> "error") @@ ("GetEventSources" :> "event_source")

\* C37: GetErrors and GetEventSources on a container that was closed and
\* opened again yield the errors and the event sources that were added,
\* in the order in which they were added, none missing and none twice,
\* however the flushes divided them into streams.
C37_ListsReadInInsertionOrder ==
    (reader.phase = "reading" /\ result.op \in DOMAIN ListReaders) =>
      /\ ~ result.raised
      /\ result.value = reader.added[ListReaders[result.op]]

\* GetErrors has yielded four errors in the order added, the two payloads
\* among them, read from three streams or more.
C37_Witness ==
    /\ reader.phase = "reading"
    /\ result.op = "GetErrors"
    /\ ~ result.raised
    /\ Len(result.value) = MaxListRecords
    /\ result.value = reader.added["error"]
    /\ \E i, j \in 1..Len(result.value) :
          i < j /\ result.value[i].payload > result.value[j].payload
    /\ Cardinality(DOMAIN Zip(storage_file, disk)["error_data"]) >= 3
    /\ \E n \in DOMAIN Zip(storage_file, disk)["error_data"] :
          Len(Zip(storage_file, disk)["error_data"][n]) >= 2


----------------------------------------------------------------------------
(* Specification SpecSource: a storage writer to which event sources are   *)
(* added and from which they are taken with GetNextEventSource.  The       *)
(* table caches of its storage file are reader.caches.                     *)

MaxSources == 6
MaxSourcePayload == 2

SourceInputs == [type : {"event_source"}, payload : 1..MaxSourcePayload]

SourceOk(caches, value) == [caches |-> caches, raised |-> FALSE, value |-> value]
SourceRaise(caches) == [caches |-> caches, raised |-> TRUE, value |-> <<>>]

\* _AttributeContainersList.GetAttributeContainerByIndex and
\* _ReadAttributeContainer: None beyond the end of the list.
GetAttributeContainerByIndex(l, index) ==
    IF index < Len(l.list) THEN <<ReadSerialized(l.list[index + 1])>>
    ELSE <<>>

\* The loop of GetEventSourceByIndex from stream n on, and the list of the
\* buffered event sources after it.
RECURSIVE GetEventSourceByIndexFrom(_, _, _, _, _)
GetEventSourceByIndexFrom(sf, caches, d, index, n) ==
    IF n >= sf.event_source_stream_number
    THEN SourceOk(caches,
                  GetAttributeContainerByIndex(sf.event_sources_list, index))
    ELSE LET zip == Zip(sf, d)
             got == GetSerializedEventSourceOffsetTable(caches, zip, n)
             offsets == got.value[1].entries
             read == ReadEntry(zip["event_source_data"][n],
                               SeekEntryAtOffset(zip["event_source_data"][n],
                                                 SerializedDataStream_init,
                                                 index, offsets[index + 1]))
         IN  IF got.raised THEN SourceRaise(got.caches)
             ELSE IF index >= Len(offsets)
             THEN GetEventSourceByIndexFrom(sf, got.caches, d,
                                            index - Len(offsets), n + 1)
             ELSE IF ~ HasStream(zip, "event_source_data", n)
             THEN SourceRaise(got.caches)
             ELSE IF read.raised THEN SourceRaise(got.caches)
             ELSE SourceOk(got.caches,
                           IF read.data = <<>> THEN <<>>
                           ELSE <<ReadSerialized(read.data[1])>>)

GetEventSourceByIndex(sf, caches, d, index) ==
    GetEventSourceByIndexFrom(sf, caches, d, index, 1)

\* ZIPStorageFileWriter.GetNextEventSource: the writer, the caches of its
\* storage file and the event source, if any.
Writer_GetNextEventSource(w, caches, d) ==
    IF w.storage_file = <<>>
    THEN [w |-> w, caches |-> caches, raised |-> TRUE, value |-> <<>>]
    ELSE LET r == GetEventSourceByIndex(w.storage_file[1], caches, d,
                                        w.event_source_index)
         IN  [w |-> IF r.value # <<>>
                    THEN [w EXCEPT !.event_source_index = @ + 1] ELSE w,
              caches |-> r.caches, raised |-> r.raised, value |-> r.value]

InitSource ==
    /\ storage_file = ZIPStorageFile_init(MaximumBufferSize,
                                          STORAGE_TYPE_SESSION)
    /\ disk = <<>>
    /\ result = [op |-> "__init__", raised |-> FALSE, argument |-> NoArgument,
                 value |-> <<>>]
    /\ accepted = NoAccepted
    /\ reader = [caches |-> TableCaches_init, added |-> <<>>,
                 returned |-> <<>>]
    /\ writers = (SessionWriter :>
                     ZIPStorageFileWriter_init(OutputFile, MaximumBufferSize,
                                               STORAGE_TYPE_SESSION))

SourceOpen ==
    /\ writers[SessionWriter].storage_file = <<>>
    /\ ~ FileExists(disk, OutputFile)
    /\ LET r == Writer_Open(writers[SessionWriter], disk)
       IN  /\ writers' = [writers EXCEPT ![SessionWriter] = r.w]
           /\ disk' = r.disk
           /\ result' = [op |-> "Open", raised |-> r.raised,
                         argument |-> NoArgument, value |-> <<>>]
    /\ UNCHANGED <<storage_file, accepted, reader>>

SourceAddEventSource ==
    /\ writers[SessionWriter].storage_file # <<>>
    /\ Len(reader.added) < MaxSources
    /\ \E event_source \in SourceInputs :
         LET r == Writer_AddEventSource(writers[SessionWriter], disk,
                                        event_source)
         IN  /\ writers' = [writers EXCEPT ![SessionWriter] = r.w]
             /\ disk' = r.disk
             /\ result' = [op |-> "AddEventSource", raised |-> r.raised,
                           argument |-> event_source, value |-> <<>>]
             /\ reader' = IF r.raised THEN reader
                          ELSE [reader EXCEPT !.added = Append(@, event_source)]
    /\ UNCHANGED <<storage_file, accepted>>

SourceGetNextEventSource ==
    /\ writers[SessionWriter].storage_file # <<>>
    /\ LET r == Writer_GetNextEventSource(writers[SessionWriter],
                                          reader.caches, disk)
       IN  /\ writers' = [writers EXCEPT ![SessionWriter] = r.w]
           /\ result' = [op |-> "GetNextEventSource", raised |-> r.raised,
                         argument |-> NoArgument, value |-> r.value]
           /\ reader' = [reader EXCEPT
                           !.caches = r.caches,
                           !.returned = IF r.raised THEN @ ELSE @ \o r.value]
    /\ UNCHANGED <<storage_file, disk, accepted>>

NextSource ==
    \/ SourceOpen
    \/ SourceAddEventSource
    \/ SourceGetNextEventSource

SpecSource == InitSource /\ [][NextSource]_vars

\* The event sources returned are the first of the event sources added.
ReturnedInAddOrder ==
    /\ Len(reader.returned) <= Len(reader.added)
    /\ reader.returned = SubSeq(reader.added, 1, Len(reader.returned))

\* C38: on an open storage writer GetNextEventSource returns the event
\* sources in the order in which they were added, each once, from a
\* stream or from the buffer, and None exactly when every event source
\* added has been returned.
C38_NextEventSourceInOrder ==
    /\ ReturnedInAddOrder
    /\ result.op = "GetNextEventSource" =>
         /\ ~ result.raised
         /\ result.value = <<>> => reader.returned = reader.added
         /\ result.value # <<>> =>
              result.value[1] = reader.added[Len(reader.returned)]

\* Six event sources were added, each flushed to a stream of its own as it
\* was added, five were returned: GetNextEventSource raises.
C38_Witness ==
    /\ result.op = "GetNextEventSource"
    /\ result.raised
    /\ Len(reader.added) = 6
    /\ Len(reader.returned) = 5
    /\ writers[SessionWriter].storage_file[1].event_source_stream_number = 7
    /\ DOMAIN reader.caches.event_source_offset_tables = 1..5

\* The streams of event sources the storage file of the writer has written.
SourceStreams == writers[SessionWriter].storage_file[1].event_source_stream_number - 1

\* While the event sources are in no more streams than the cache holds
\* tables, GetNextEventSource returns them as stated.
NextEventSourceInOrderWithinCache ==
    (writers[SessionWriter].storage_file # <<>>
       /\ SourceStreams <= MAXIMUM_NUMBER_OF_CACHED_TABLES)
      => C38_NextEventSourceInOrder

\* An event source still buffered was returned after one read from a
\* stream, and then None.
ReturnedStoredAndBuffered ==
    /\ result.op = "GetNextEventSource"
    /\ ~ result.raised
    /\ result.value = <<>>
    /\ Len(reader.returned) = 3
    /\ SourceStreams = 1
    /\ Len(writers[SessionWriter].storage_file[1].event_sources_list.list) = 1


----------------------------------------------------------------------------
(* The completion markers.                                                 *)

CompletionOperations == {"WriteSessionCompletion", "WriteTaskCompletion"}

\* The step of a completion operation that wrote its marker.
CompletionWritten(op) ==
    /\ result'.op = op
    /\ ~ result'.raised
    /\ OpenForWrite(storage_file)
    /\ HasStream(Zip(storage_file', disk'), MarkerOf(op),
                 MarkerNumber(storage_file, MarkerOf(op)))

\* Nothing is buffered after the step and every record accepted since the
\* container was opened is in a stream of the container.
AllCommittedAfterStep ==
    /\ \A k \in BufferKinds :
          /\ Buffered(storage_file', k) = <<>>
          /\ BufferSize(storage_file', k) = 0
    /\ \A k \in RecordKinds :
          accepted[k] \sqsubseteq
            SeqToBag(AllEntries(Zip(storage_file', disk'), DataStreamOf(k)))

\* The step of a WriteSessionStart that returned on a session container
\* open for writing.
SessionStartWritten ==
    /\ result'.op = "WriteSessionStart"
    /\ ~ result'.raised
    /\ OpenForWrite(storage_file)

\* C39: when WriteSessionCompletion or WriteTaskCompletion has written its
\* marker, every record added before the call is in a committed stream and
\* no buffer holds a record; WriteSessionCompletion has written
\* session_completion.N and made N + 1 the session number, and
\* WriteSessionStart writes the session start of the number that follows
\* the last session completion of the container.
C39_CompletionAfterFlush ==
    [][/\ \A op \in CompletionOperations :
             CompletionWritten(op) => AllCommittedAfterStep
       /\ CompletionWritten("WriteSessionCompletion") =>
             storage_file'.last_session = storage_file.last_session + 1
       /\ SessionStartWritten =>
             /\ storage_file.last_session
                  = GetLastStreamNumber(Zip(storage_file, disk),
                                        "session_completion")
             /\ HasStream(Zip(storage_file', disk'), "session_start",
                          storage_file.last_session)
             /\ ~ HasStream(Zip(storage_file, disk), "session_start",
                            storage_file.last_session)]_vars

\* WriteSessionCompletion was called with a record buffered: the record is
\* committed, session_completion.1 is written and the session number is 2.
C39_Witness ==
    /\ result.op = "WriteSessionCompletion"
    /\ ~ result.raised
    /\ OpenForWrite(storage_file)
    /\ result.buffered > 0
    /\ BufferedCount(storage_file) = 0
    /\ CountAccepted(RecordKinds) > 0
    /\ HasStream(Zip(storage_file, disk), "session_completion", 1)
    /\ storage_file.last_session = 2

\* The start of the second session was written after the completion of
\* the first.
SecondSessionStartWritten ==
    /\ result.op = "WriteSessionStart"
    /\ ~ result.raised
    /\ HasStream(Zip(storage_file, disk), "session_completion", 1)
    /\ HasStream(Zip(storage_file, disk), "session_start", 2)

\* WriteTaskCompletion was called with a record buffered on a task
\* container and wrote task_completion.1 after the record.
TaskCompletionWritten ==
    /\ result.op = "WriteTaskCompletion"
    /\ ~ result.raised
    /\ OpenForWrite(storage_file)
    /\ result.buffered > 0
    /\ BufferedCount(storage_file) = 0
    /\ HasStream(Zip(storage_file, disk), "task_completion", 1)


----------------------------------------------------------------------------
(* Specification SpecSeek: one _SerializedDataStream on a stored stream,   *)
(* intact or with one entry damaged after it was written, sought and read  *)
(* in every order.  Offsets and entry indexes are those of the offset      *)
(* table of the stream.  reader holds the entries of the stream, the       *)
(* object, and the object as it was before the last operation.             *)

MaxSeekEntries == 3
MaxSeekPayload == 2

SeekInputs == [type : {"event_source"}, payload : 1..MaxSeekPayload]

\* The streams a writer stores: one entry per serialized container.
StoredStreams ==
    SequencesUpTo({WriteSerialized(container) : container \in SeekInputs},
                  MaxSeekEntries) \ {<<>>}

\* The stream with the size field of an entry above the maximum, or with
\* the data of the last entry cut short.
DamagedStreams(entries) ==
    {[entries EXCEPT ![i] = WithSize(@, MAXIMUM_DATA_SIZE + 1)] :
        i \in 1..Len(entries)}
      \cup {[entries EXCEPT ![Len(entries)] = WithSize(@, DataLen(@) + 1)]}

InitSeek ==
    /\ storage_file = ZIPStorageFile_init(MaximumBufferSize,
                                          STORAGE_TYPE_SESSION)
    /\ disk = <<>>
    /\ \E stored \in StoredStreams :
          \E entries \in {stored} \cup DamagedStreams(stored) :
             reader = [entries |-> entries,
                       data_stream |-> SerializedDataStream_init,
                       before |-> SerializedDataStream_init]
    /\ result = [op |-> "__init__", raised |-> FALSE, argument |-> NoArgument,
                 value |-> <<>>]
    /\ accepted = NoAccepted
    /\ writers = NoWriters

\* data_stream.SeekEntryAtOffset(entry_index, stream_offset) with an entry
\* of the offset table.
SeekSeekEntryAtOffset ==
    \E entry_index \in 0..(Len(reader.entries) - 1) :
       LET stream_offset == EntryOffsets(reader.entries)[entry_index + 1]
       IN  /\ reader' = [reader EXCEPT
                            !.data_stream =
                                SeekEntryAtOffset(reader.entries, @,
                                                  entry_index, stream_offset),
                            !.before = reader.data_stream]
           /\ result' = [op |-> "SeekEntryAtOffset", raised |-> FALSE,
                         argument |-> [entry_index |-> entry_index,
                                       stream_offset |-> stream_offset],
                         value |-> <<>>]
           /\ UNCHANGED <<storage_file, disk, accepted, writers>>

\* data_stream.ReadEntry()
SeekReadEntry ==
    LET read == ReadEntry(reader.entries, reader.data_stream)
    IN  /\ reader' = [reader EXCEPT !.data_stream = read.data_stream,
                                    !.before = reader.data_stream]
        /\ result' = [op |-> "ReadEntry", raised |-> read.raised,
                      argument |-> NoArgument, value |-> read.data]
        /\ UNCHANGED <<storage_file, disk, accepted, writers>>

NextSeek ==
    \/ SeekSeekEntryAtOffset
    \/ SeekReadEntry

SpecSeek == InitSeek /\ [][NextSeek]_vars

Sought == result.op = "SeekEntryAtOffset"

\* The entry the last SeekEntryAtOffset was told to seek.
SoughtEntry == reader.entries[result.argument.entry_index + 1]

\* The cursor of the stream is at the offset sought and the next ReadEntry
\* returns the record that starts there.
CursorAtSoughtEntry ==
    LET read == ReadEntry(reader.entries, reader.data_stream)
    IN  /\ reader.data_stream.file_offset = result.argument.stream_offset
        /\ reader.data_stream.entry_index = result.argument.entry_index
        /\ ~ Malformed(SoughtEntry) =>
              /\ ~ read.raised
              /\ read.data = <<SoughtEntry>>
              /\ read.data_stream.entry_index
                   = result.argument.entry_index + 1

\* C40: after SeekEntryAtOffset(entry_index, offset) the read cursor of the
\* stream is at byte offset `offset` and the entry index is entry_index,
\* whether the offset was ahead of the cursor or behind it, and the next
\* ReadEntry returns the record that starts at that offset.
C40_SeekPositionsCursor == Sought => CursorAtSoughtEntry

\* A forward seek after a ReadEntry that raised: the file object was past
\* the offset the object kept, and the skip of the delta ends past the
\* offset sought.
C40_Witness ==
    /\ Sought
    /\ reader.before.file_offset > reader.before.stream_offset
    /\ result.argument.stream_offset > reader.before.stream_offset
    /\ reader.data_stream.file_offset > result.argument.stream_offset
    /\ ~ Malformed(SoughtEntry)
    /\ ReadEntry(reader.entries, reader.data_stream).raised

\* The object's own account of the position: _stream_offset and
\* _entry_index are the values sought after every SeekEntryAtOffset.
SeekSetsStreamOffset ==
    Sought =>
       /\ reader.data_stream.stream_offset = result.argument.stream_offset
       /\ reader.data_stream.entry_index = result.argument.entry_index

\* No ReadEntry has raised since the file object was opened or reopened:
\* the file object is where _stream_offset says.
InStep(data_stream) == data_stream.file_offset = data_stream.stream_offset

\* A seek from an object in step, forward or backward, and every seek
\* backward, puts the cursor at the entry sought.
SeekInStepPositionsCursor ==
    (Sought /\ (InStep(reader.before)
                  \/ result.argument.stream_offset
                       < reader.before.stream_offset))
       => CursorAtSoughtEntry

\* On a stream without damage every seek puts the cursor at the entry.
Intact == \A i \in 1..Len(reader.entries) : ~ Malformed(reader.entries[i])

SeekOnIntactStreamPositionsCursor == (Sought /\ Intact) => CursorAtSoughtEntry

\* A forward seek that skipped the delta only, and a seek backward, on an
\* object in step.
SoughtForward ==
    /\ Sought
    /\ InStep(reader.before)
    /\ reader.before.stream_offset > 0
    /\ result.argument.stream_offset > reader.before.stream_offset
    /\ CursorAtSoughtEntry

SoughtBackward ==
    /\ Sought
    /\ result.argument.stream_offset > 0
    /\ result.argument.stream_offset < reader.before.stream_offset
    /\ CursorAtSoughtEntry

\* A seek backward after a ReadEntry that raised: the reopened file object
\* is in step again.
SoughtBackwardAfterRaise ==
    /\ Sought
    /\ ~ InStep(reader.before)
    /\ result.argument.stream_offset < reader.before.stream_offset
    /\ CursorAtSoughtEntry

====
